---- MODULE Spec2Model ----
(***************************************************************************)
(* claudegate: job store, pending queue, worker pool, intake handlers,     *)
(* crash recovery, cleanup, the SSE fan-out registry, the StreamSSE        *)
(* handler and the webhook dispatcher.                                     *)
(*                                                                         *)
(* Spec       the scheduler: store + pending channel + workers + intake    *)
(*            handlers + crash/Recovery/cleanup.                           *)
(* SpecRun    the same within one process lifetime (no crash).             *)
(* SpecFanout the fan-out registry used as a concurrent object, with the   *)
(*            registry mutex and every channel operation as its own step.  *)
(* SpecStream one worker producing the events of a job in program order,   *)
(*            with stream handlers subscribing, reading and leaving.       *)
(* SpecQueue  SpecRun for every configured queue size up to MaxQueueSize.  *)
(* SpecLive   a process restarted on a database of processing jobs, with   *)
(*            fair scheduling of main and of the workers.                  *)
(* SpecWebhook the end of a job's run, its finalization and the webhook    *)
(*            delivery, with user cancellation and process shutdown.       *)
(* SpecSSE    StreamSSE requests on a job persisted in any status.         *)
(* SpecIntake CreateJob with valid and invalid requests, and the workers.  *)
(* SpecStore  the SQLiteStore called directly, with the clock and cleanup. *)
(* SpecStrip  stripCodeFences applied to every text up to MaxText.         *)
(* SpecRegistry the fan-out registry with subscribers and events of every  *)
(*            job.                                                         *)
(* SpecPool   SpecRun for every configured pool size up to Concurrency.    *)
(* SpecFinalize the end of a run and finalizeJob on the registry that      *)
(*            stream handlers subscribe to, with user cancellation.        *)
(* SpecRace   the same without cancellation, with fair scheduling.         *)
(* SpecEnd    one job from CreateJob to its end, with stream handlers and  *)
(*            user cancellation, with fair scheduling.                     *)
(* SpecErr    CreateJob and workers whose store.Get or MarkProcessing can  *)
(*            fail, with fair scheduling.                                  *)
(* SpecShutdown a job running at a graceful shutdown, the restart and      *)
(*            Recovery, with fair scheduling.                              *)
(***************************************************************************)
EXTENDS Integers, Sequences, FiniteSets, TLC

(* ---------------------------- bounds ----------------------------------- *)
MaxJobs == 2
Concurrency == 2
QueueSize == 1
MaxBoots == 1
\* how often the process is shut down and started again
MaxStops == 2
MaxChunks == 1
MaxTime == 3
MaxHandlers == 1
MaxQueueSize == 2
MaxProcs == 2
MaxSinks == 2
MaxCalls == 3
\* capacity of a sink; make(chan SSEEvent, 64) in the source, scaled down
SinkCap == 2
\* the longest text handed to stripCodeFences, and how often it is applied
MaxText == 6
Applications == 2

(* ------------------------ program constants ---------------------------- *)
JobTTLHours == 1
CleanupIntervalHours == 2
JobTimeoutMinutes == 1

Jobs == 1..MaxJobs
Workers == 1..Concurrency
Handlers == 1..MaxHandlers
Procs == 1..MaxProcs
Sinks == 1..MaxSinks
NoId == 0
\* the job whose events are streamed
Streamed == 1
Null == 0

StatusQueued == "queued"
StatusProcessing == "processing"
StatusCompleted == "completed"
StatusFailed == "failed"
StatusCancelled == "cancelled"

\* mutant: cancelled is not counted as terminal
IsTerminalUnlessCancelled(s) == s = StatusCompleted \/ s = StatusFailed

IsTerminal(s) == s = StatusCompleted \/ s = StatusFailed \/ s = StatusCancelled

(* errors are chains of messages, outermost first; Nil is the empty chain  *)
Nil == <<>>
ErrQueueFull == <<"queue full">>
Wrap(msg, err) == <<msg>> \o err
ErrorsIs(err, target) ==
    target # Nil /\ \E i \in 1..Len(err) : SubSeq(err, i, Len(err)) = target

\* SSEEvent{Event, Data}
Event(e, d) == [Event |-> e, Data |-> d]
NoEvent == Event("", 0)
EvStatus == Event("status", 0)
EvChunk(k) == Event("chunk", k)
EvResult == Event("result", 0)

VARIABLES
    store,      \* jobs table: id -> row, or NoJob
    now,        \* wall clock
    nextId,     \* next fresh job id (uuid.New)
    phase,      \* "boot" | "recovered" | "serving" | "panicked"
    boots,      \* number of process restarts so far
    pending,    \* q.jobs, the buffered channel of job ids
    cancels,    \* q.cancels: id -> worker whose jobCancel is registered, or 0
    wpc,        \* worker -> position in runWorker/processJob/finalizeJob
    wjob,       \* worker -> job id it holds
    wctx,       \* worker -> "live" | "canceled": state of jobCtx
    wrunErr,    \* worker -> the error worker.Run returned
    hpc,        \* handler -> position in its request
    hjob,       \* handler -> job id of its request
    herr,       \* handler -> the error store.Create or Enqueue returned to it
    hcode,      \* handler -> HTTP status it wrote, 0 before the response
    hop,        \* handler -> the route it serves
    hreq,       \* handler -> the CreateRequest it decoded, NoRequest if none
    notified,   \* id -> events this process passed to notify/notifyAndClose
    runs,       \* id -> external processes this process spawned for it
    marks,      \* id -> MarkProcessing calls this process made for it
    enqs,       \* id -> successful Enqueue calls of this process for it
    full,       \* ids whose latest Enqueue returned ErrQueueFull
    cancelOK,   \* ids for which CancelJob has answered 200
    qcap,       \* cap(q.jobs), set by New from cfg.QueueSize
    pool,       \* cfg.Concurrency as Start reads it
    ttl,        \* cfg.JobTTLHours as StartCleanup receives it
    ticket,     \* id -> rank of its successful Enqueue in this process, or 0
    everProcessing, \* ids of rows whose status has been processing
    subs,       \* q.subs: job id -> the sinks registered for it, in order
    mu,         \* q.mu: the goroutines holding the read lock
    sbuf,       \* sink -> events buffered in the channel
    sclosed,    \* sink -> the channel has been closed
    sstate,     \* sink -> "new" | "open" | "return" | "left": its StreamSSE
    sid,        \* sink -> the job id its handler subscribed with
    rcvd,       \* sink -> events its StreamSSE handler has received
    eof,        \* sink -> its StreamSSE handler has seen the close
    fpc,        \* goroutine -> position in notify / notifyAndClose
    fev,        \* goroutine -> the event it is sending
    fchans,     \* goroutine -> the slice of sinks it iterates
    fi,         \* goroutine -> index of the iteration
    panic,      \* the runtime panic that ended the process, "" if none
    emitted,    \* number of notify / notifyAndClose calls made
    finalized,  \* notifyAndClose has been called by finalizeJob
    atClose,    \* sinks that were registered when notifyAndClose took the entry
    mainCtx,    \* "live" | "canceled": the context main hands to Start
    callback,   \* id -> the job's callback URL
    hookpc,     \* id -> "none" | "loop" | "post" | "sleep" | "done": send
    hctx,       \* id -> the context Send was given
    attempt,    \* id -> send's loop variable
    posted,     \* id -> POST requests issued to the job's callback URL
    failed,     \* id -> attempts that send saw fail
    sleeps,     \* id -> sleeps send has taken between attempts
    last,       \* id -> what the latest POST brought back
    spc,        \* sink -> "get" | "branch" | "stream" | "done": StreamSSE
    sj,         \* sink -> the job row its StreamSSE read
    scode,      \* sink -> the error status its StreamSSE wrote, 0 if none
    swrote,     \* sink -> names of the events StreamSSE wrote itself
    lastOp,     \* the latest call made on the store by its direct callers
    ret,        \* what that call returned
    text,       \* the text handed to stripCodeFences
    out         \* the text, followed by what each application made of it

vars == <<store, now, nextId, phase, boots, pending, cancels, wpc, wjob, wctx,
          wrunErr, hpc, hjob, herr, hcode, hop, hreq, notified, runs, marks,
          enqs,
          full, cancelOK, qcap, pool, ttl, ticket, everProcessing, lastOp, ret, subs, mu, sbuf, sclosed, sstate, sid, rcvd,
          eof, fpc, fev,
          fchans, fi, panic, emitted, finalized, atClose, mainCtx, callback,
          hookpc, hctx, attempt, posted, failed, sleeps, last, spc, sj, scode,
          swrote, text, out>>

sched == <<store, now, nextId, phase, boots, pending, cancels, wpc, wjob, wctx,
           wrunErr, hpc, hjob, herr, hcode, hop, hreq, notified, runs, marks,
          enqs,
           full, cancelOK, qcap, pool, ttl, ticket, everProcessing>>
fan == <<subs, mu, sbuf, sclosed, sstate, sid, rcvd, eof, fpc, fev, fchans, fi,
         panic, emitted, finalized, atClose>>

web == <<mainCtx, callback, hookpc, hctx, attempt, posted, failed, sleeps,
         last>>
sse == <<spc, sj, scode, swrote>>
call == <<lastOp, ret>>
pure == <<text, out>>

workers == <<wpc, wjob, wctx, wrunErr>>
handlers == <<hpc, hjob, herr, hcode, hop, hreq>>
volatile == <<pending, cancels, workers, handlers>>
ghosts == <<notified, runs, marks, enqs, full, cancelOK, ticket>>

\* sql.NullString, the metadata column as it is scanned
NullString(valid, str) == [Valid |-> valid, String |-> str]

NoJob == [id |-> NoId, prompt |-> "", model |-> "",
          metadata |-> NullString(FALSE, ""), response_format |-> "",
          status |-> "absent", result |-> "", error |-> "",
          started_at |-> Null, completed_at |-> Null]

\* the fields of a Job that Create reads; Metadata is the raw JSON text, ""
\* when there is none
Job(id, prompt, model, metadata, response_format, status) ==
    [ID |-> id, Prompt |-> prompt, Model |-> model, Metadata |-> metadata,
     ResponseFormat |-> response_format, Status |-> status]

\* a CreateRequest with what json Decode made of the body: decoded is
\* Decode's success
CreateRequest(decoded, prompt, model, metadata, response_format) ==
    [decoded |-> decoded, Prompt |-> prompt, Model |-> model,
     Metadata |-> metadata, ResponseFormat |-> response_format]

validModels == {"haiku", "sonnet", "opus"}
DefaultModel == "haiku"

\* mutant: a Validate that does not look at the model
ValidateAnyModel(r) ==
    IF r.Prompt = "" THEN <<"prompt must not be empty">>
    ELSE IF r.ResponseFormat # "" /\ r.ResponseFormat # "text"
            /\ r.ResponseFormat # "json"
         THEN <<"response_format must be 'text' or 'json'">>
    ELSE Nil

\* CreateRequest.Validate
Validate(r) ==
    IF r.Prompt = "" THEN <<"prompt must not be empty">>
    ELSE IF r.Model # "" /\ r.Model \notin validModels
         THEN <<"model must be one of: haiku, sonnet, opus">>
    ELSE IF r.ResponseFormat # "" /\ r.ResponseFormat # "text"
            /\ r.ResponseFormat # "json"
         THEN <<"response_format must be 'text' or 'json'">>
    ELSE Nil

\* CreateJob: if req.Model == "" { req.Model = h.cfg.DefaultModel }
WithDefaultModel(r) ==
    IF r.Model = "" THEN [r EXCEPT !.Model = DefaultModel] ELSE r

\* no body has been decoded
NoRequest == CreateRequest(FALSE, "", "", "", "none")

\* the request every client sends where the content of a job does not matter
PlainRequest == CreateRequest(TRUE, "Hello world", "", "", "")

\* requests with every way of failing validation, and valid ones
Requests ==
    { PlainRequest,
      CreateRequest(TRUE, "Hello world", "opus", "{\"k\":1}", "json"),
      CreateRequest(TRUE, "Hello world", "sonnet", "", "text"),
      CreateRequest(FALSE, "", "", "", ""),
      CreateRequest(TRUE, "", "haiku", "", ""),
      CreateRequest(TRUE, "", "", "", ""),
      CreateRequest(TRUE, "Hello world", "gpt", "", ""),
      CreateRequest(TRUE, "Hello world", "haiku", "", "xml") }

\* CreateJob: the Job built from a request
NewJob(id, r) ==
    Job(id, r.Prompt, r.Model, r.Metadata, r.ResponseFormat, StatusQueued)

(* ------------------------------ store ---------------------------------- *)
Exists(st, id) == st[id].status # "absent"

\* nullableJSON: NULL for an empty Metadata
nullableJSON(b) == IF b = "" THEN NullString(FALSE, "") ELSE NullString(TRUE, b)

\* mutant: the INSERT binds j.Status
StoreCreateWithStatus(st, j) ==
    [st EXCEPT ![j.ID] =
        [id |-> j.ID, prompt |-> j.Prompt, model |-> j.Model,
         metadata |-> nullableJSON(j.Metadata),
         response_format |-> j.ResponseFormat,
         status |-> j.Status, result |-> "", error |-> "",
         started_at |-> Null, completed_at |-> Null]]

StoreCreate(st, j) ==
    [st EXCEPT ![j.ID] =
        [id |-> j.ID, prompt |-> j.Prompt, model |-> j.Model,
         metadata |-> nullableJSON(j.Metadata),
         response_format |-> j.ResponseFormat,
         status |-> StatusQueued, result |-> "", error |-> "",
         started_at |-> Null, completed_at |-> Null]]

\* Get: the Job scanned from the row and the error; NoJob stands for nil
StoreGet(st, id) ==
    IF Exists(st, id)
    THEN [job |-> [ID |-> st[id].id, Prompt |-> st[id].prompt,
                   Model |-> st[id].model,
                   Metadata |-> IF st[id].metadata.Valid
                                THEN st[id].metadata.String ELSE "",
                   ResponseFormat |-> st[id].response_format,
                   Status |-> st[id].status],
          err |-> Nil]
    ELSE [job |-> NoJob, err |-> Nil]

\* mutant: INSERT OR REPLACE in place of UPDATE ... WHERE id = ?
StoreUpsertStatus(st, id, status, result, errMsg, t) ==
    [st EXCEPT ![id] =
        [@ EXCEPT !.id = id, !.status = status, !.result = result,
                  !.error = errMsg,
                  !.completed_at = IF IsTerminal(status) THEN t ELSE Null]]

StoreUpdateStatus(st, id, status, result, errMsg, t) ==
    IF Exists(st, id)
    THEN [st EXCEPT ![id].status = status, ![id].result = result,
                    ![id].error = errMsg,
                    ![id].completed_at = IF IsTerminal(status) THEN t ELSE Null]
    ELSE st

\* mutant: a statement that sets the status and forgets started_at
StoreMarkProcessingNoStart(st, id, t) ==
    IF Exists(st, id)
    THEN [st EXCEPT ![id].status = StatusProcessing]
    ELSE st

StoreMarkProcessing(st, id, t) ==
    IF Exists(st, id)
    THEN [st EXCEPT ![id].status = StatusProcessing, ![id].started_at = t]
    ELSE st

StoreDelete(st, id) == [st EXCEPT ![id] = NoJob]

ProcessingIds(st) == {id \in Jobs : st[id].status = StatusProcessing}

\* mutant: the reset leaves started_at as it was
StoreResetProcessingKeepStart(st) ==
    [id \in Jobs |->
        IF st[id].status = StatusProcessing
        THEN [st[id] EXCEPT !.status = StatusQueued]
        ELSE st[id]]

StoreResetProcessing(st) ==
    [id \in Jobs |->
        IF st[id].status = StatusProcessing
        THEN [st[id] EXCEPT !.status = StatusQueued, !.started_at = Null]
        ELSE st[id]]

\* the rows of st whose status is or has been processing, given those (e) of
\* the table before the statement that produced st
EverProcessing(e, st) ==
    (e \cup ProcessingIds(st)) \cap {id \in Jobs : Exists(st, id)}

\* mutant: a statement that also deletes the rows completed at the cutoff
StoreDeleteTerminalUpTo(st, before) ==
    [id \in Jobs |->
        IF IsTerminal(st[id].status) /\ st[id].completed_at # Null
           /\ st[id].completed_at <= before
        THEN NoJob ELSE st[id]]

StoreDeleteTerminalBefore(st, before) ==
    [id \in Jobs |->
        IF IsTerminal(st[id].status) /\ st[id].completed_at # Null
           /\ st[id].completed_at < before
        THEN NoJob ELSE st[id]]

(* ------------------------------ queue ---------------------------------- *)
\* Enqueue: non-blocking send on the buffered channel
EnqueueErr(q, id) ==
    IF Len(q) < qcap THEN Nil ELSE Wrap("queue full: job", ErrQueueFull)

\* mutant: a channel that puts the newest id in front
EnqueueChanFront(q, id) == IF Len(q) < qcap THEN <<id>> \o q ELSE q

\* mutant: a send that does not look at the capacity
EnqueueChanUnbounded(q, id) == Append(q, id)

EnqueueChan(q, id) ==
    IF Len(q) < qcap THEN Append(q, id) ELSE q

\* ids in ascending order, the order in which the SELECT returns them
RECURSIVE SetToSeq(_)
SetToSeq(S) ==
    IF S = {} THEN <<>>
    ELSE LET m == CHOOSE x \in S : \A y \in S : x <= y
         IN <<m>> \o SetToSeq(S \ {m})

\* mutant: Recovery forgets to put the ids back into the channel
EnqueueNone(q, ids) == q

RECURSIVE EnqueueAll(_, _)
EnqueueAll(q, ids) ==
    IF ids = <<>> THEN q
    ELSE EnqueueAll(EnqueueChan(q, Head(ids)), Tail(ids))

RECURSIVE EnqueuedOf(_, _)
EnqueuedOf(q, ids) ==
    IF ids = <<>> THEN {}
    ELSE (IF EnqueueErr(q, Head(ids)) = Nil THEN {Head(ids)} ELSE {})
         \cup EnqueuedOf(EnqueueChan(q, Head(ids)), Tail(ids))

\* the rank given to id when its Enqueue on q succeeds: one more than the ranks
\* given so far
Ticket(q, id, t) ==
    IF EnqueueErr(q, id) = Nil
    THEN [t EXCEPT ![id] = Cardinality({j \in Jobs : t[j] # 0}) + 1]
    ELSE t

RECURSIVE TicketAll(_, _, _)
TicketAll(q, ids, t) ==
    IF ids = <<>> THEN t
    ELSE TicketAll(EnqueueChan(q, Head(ids)), Tail(ids),
                   Ticket(q, Head(ids), t))

\* the state after New(cfg, store) with cfg.QueueSize = c, on a database
\* that holds the rows st and has seen the ids below n, in process number b
(* ----------------------------- webhook --------------------------------- *)
\* an IPv4 address is its four octets; net.IP's classification methods
IsLoopback(ip) == ip[1] = 127
IsPrivate(ip) ==
    \/ ip[1] = 10
    \/ ip[1] = 172 /\ ip[2] \div 16 = 1
    \/ ip[1] = 192 /\ ip[2] = 168
IsLinkLocalUnicast(ip) == ip[1] = 169 /\ ip[2] = 254
IsLinkLocalMulticast(ip) == ip[1] = 224 /\ ip[2] = 0 /\ ip[3] = 0
IsUnspecified(ip) == ip = <<0, 0, 0, 0>>

\* a callback URL with what url.Parse and net.LookupHost make of it: parse
\* is url.Parse's success, scheme is u.Scheme, lookup is LookupHost's
\* success and ips its answer in order
URL(raw, parse, scheme, lookup, ips) ==
    [raw |-> raw, parse |-> parse, scheme |-> scheme, lookup |-> lookup,
     ips |-> ips]

NoURL == URL("", TRUE, "", FALSE, <<>>)

PublicURLs ==
    { URL("http://93.184.216.34/hook", TRUE, "http", TRUE,
          << <<93, 184, 216, 34>> >>),
      URL("https://172.32.0.1/hook", TRUE, "https", TRUE,
          << <<172, 32, 0, 1>> >>) }

BlockedURLs ==
    { URL("ftp://example.com/hook", TRUE, "ftp", TRUE,
          << <<93, 184, 216, 34>> >>),
      URL("http://127.0.0.1/hook", TRUE, "http", TRUE,
          << <<127, 0, 0, 1>> >>),
      URL("http://192.168.1.1/hook", TRUE, "http", TRUE,
          << <<192, 168, 1, 1>> >>),
      URL("http://169.254.169.254/hook", TRUE, "http", TRUE,
          << <<169, 254, 169, 254>> >>),
      URL("https://0.0.0.0/hook", TRUE, "https", TRUE,
          << <<0, 0, 0, 0>> >>),
      URL("https://rebind.example/hook", TRUE, "https", TRUE,
          << <<93, 184, 216, 34>>, <<10, 0, 0, 1>> >>),
      URL("http://nxdomain.invalid/hook", TRUE, "http", FALSE, <<>>),
      URL("://not a valid url%%", FALSE, "", FALSE, <<>>) }

URLs == {NoURL} \cup PublicURLs \cup BlockedURLs

\* mutant: only the first resolved address is looked at
CheckedIPsFirst(ips) == IF ips = <<>> THEN {} ELSE {ips[1]}

\* the addresses validateURL's loop looks at
CheckedIPs(ips) == {ips[i] : i \in 1..Len(ips)}

\* validateURL: Nil when the URL is accepted
ValidateURL(u) ==
    IF ~u.parse THEN <<"invalid URL">>
    ELSE IF u.scheme # "https" /\ u.scheme # "http"
         THEN <<"unsupported scheme">>
    ELSE IF ~u.lookup THEN <<"DNS lookup failed">>
    ELSE IF \E ip \in CheckedIPs(u.ips) :
                \/ IsLoopback(ip) \/ IsPrivate(ip) \/ IsLinkLocalUnicast(ip)
                \/ IsLinkLocalMulticast(ip) \/ IsUnspecified(ip)
         THEN <<"private/internal IP blocked">>
    ELSE Nil

\* contexts: "ctx" is main's cancellable context, "detached" the one
\* context.WithoutCancel makes of it
WithoutCancel(c) == "detached"

retryAttempts == 8

\* what one POST can bring back: a transport error or a response status
TransportError == 0
Responses == {TransportError, 199, 200, 299, 300}
NoResponse == -1

\* post: nil for a response with a 2xx status
PostErr(r) ==
    IF r = TransportError THEN <<"transport error">>
    ELSE IF r < 200 \/ r >= 300 THEN <<"non-2xx status">>
    ELSE Nil

\* mutant: the loop runs once more
LoopCondOneMore(a) == a <= retryAttempts + 1

\* send: the loop condition attempt <= retryAttempts
LoopCond(a) == a <= retryAttempts

\* webhook.Send, reached from finalizeJob when callbackURL != "": validate,
\* then go send(ctx, callbackURL, payload)
WebhookSend(id) ==
    IF callback[id].raw # "" /\ ValidateURL(callback[id]) = Nil
    THEN /\ hookpc' = [hookpc EXCEPT ![id] = "loop"]
         /\ hctx' = [hctx EXCEPT ![id] = WithoutCancel("ctx")]
         /\ attempt' = [attempt EXCEPT ![id] = 1]
         /\ UNCHANGED <<mainCtx, callback, posted, failed, sleeps, last>>
    ELSE UNCHANGED web

\* the registry and its goroutines at the start of a process
\* make(map[string][]chan SSEEvent)
NoSubs == [id \in {} |-> <<>>]

InitFan ==
    /\ subs = NoSubs
    /\ sid = [s \in Sinks |-> NoId]
    /\ mu = {}
    /\ sbuf = [s \in Sinks |-> <<>>]
    /\ sclosed = [s \in Sinks |-> FALSE]
    /\ sstate = [s \in Sinks |-> "new"]
    /\ rcvd = [s \in Sinks |-> <<>>]
    /\ eof = [s \in Sinks |-> FALSE]
    /\ fpc = [p \in Procs |-> "idle"]
    /\ fev = [p \in Procs |-> NoEvent]
    /\ fchans = [p \in Procs |-> <<>>]
    /\ fi = [p \in Procs |-> 0]
    /\ panic = ""
    /\ emitted = 0
    /\ finalized = FALSE
    /\ atClose = {}

\* no delivery has been started; the jobs carry the callback URLs cb
InitWeb(cb) ==
    /\ mainCtx = "live"
    /\ callback = cb
    /\ hookpc = [id \in Jobs |-> "none"]
    /\ hctx = [id \in Jobs |-> ""]
    /\ attempt = [id \in Jobs |-> 0]
    /\ posted = [id \in Jobs |-> 0]
    /\ failed = [id \in Jobs |-> 0]
    /\ sleeps = [id \in Jobs |-> 0]
    /\ last = [id \in Jobs |-> NoResponse]

\* no stream request has been served
InitSSE ==
    /\ spc = [s \in Sinks |-> "get"]
    /\ sj = [s \in Sinks |-> NoJob]
    /\ scode = [s \in Sinks |-> 0]
    /\ swrote = [s \in Sinks |-> <<>>]

\* a store call that a direct caller made, and the zero value
StoreCall(op, id, arg, by) == [op |-> op, id |-> id, arg |-> arg, by |-> by]
\* the arguments of a call besides ctx and id
NoArg == [none |-> TRUE]
Before(t) == [before |-> t]
NoCall == StoreCall("", NoId, NoArg, "")

\* the return value of a store call that returns only an error
ErrOnly(err) == [err |-> err]

InitCall ==
    /\ lastOp = NoCall
    /\ ret = ErrOnly(Nil)

\* no text has been handed to stripCodeFences
NoText == <<>>

InitText(s) ==
    /\ text = s
    /\ out = <<s>>

\* the process as main builds it, and the text s in the hands of a caller of
\* stripCodeFences
InitPool(k, s, tt, c, st, n, b) ==
    /\ InitText(s)
    /\ pool = k
    /\ ttl = tt
    /\ InitCall
    /\ qcap = c
    /\ ticket = [id \in Jobs |-> 0]
    /\ everProcessing = ProcessingIds(st)
    /\ store = st
    /\ now = 1
    /\ nextId = n
    /\ phase = "boot"
    /\ boots = b
    /\ pending = <<>>
    /\ cancels = [id \in Jobs |-> 0]
    /\ wpc = [w \in Workers |-> "idle"]
    /\ wjob = [w \in Workers |-> NoId]
    /\ wctx = [w \in Workers |-> "live"]
    /\ wrunErr = [w \in Workers |-> Nil]
    /\ hpc = [h \in Handlers |-> "idle"]
    /\ hjob = [h \in Handlers |-> NoId]
    /\ herr = [h \in Handlers |-> Nil]
    /\ hcode = [h \in Handlers |-> 0]
    /\ hop = [h \in Handlers |-> ""]
    /\ hreq = [h \in Handlers |-> NoRequest]
    /\ notified = [id \in Jobs |-> <<>>]
    /\ runs = [id \in Jobs |-> 0]
    /\ marks = [id \in Jobs |-> 0]
    /\ enqs = [id \in Jobs |-> 0]
    /\ full = {}
    /\ cancelOK = {}
    /\ InitFan
    /\ InitWeb([id \in Jobs |-> NoURL])
    /\ InitSSE

\* the process with the pool size of the bounds
InitProcess(s, tt, c, st, n, b) == InitPool(Concurrency, s, tt, c, st, n, b)

InitConfig(tt, c, st, n, b) == InitProcess(NoText, tt, c, st, n, b)

InitWith(c, st, n, b) == InitConfig(JobTTLHours, c, st, n, b)

EmptyStore == [id \in Jobs |-> NoJob]

Init == InitWith(QueueSize, EmptyStore, 1, 0)

(* --------------------------- process life ------------------------------ *)
\* main: q.Recovery(ctx), called before q.Start(ctx)
Recovery ==
    /\ phase = "boot"
    /\ LET ids == SetToSeq(ProcessingIds(store))
       IN /\ store' = StoreResetProcessing(store)
          /\ pending' = EnqueueAll(pending, ids)
          /\ enqs' = [id \in Jobs |->
                        IF id \in EnqueuedOf(pending, ids) THEN enqs[id] + 1
                        ELSE enqs[id]]
          /\ full' = (full \ EnqueuedOf(pending, ids))
                         \cup (ProcessingIds(store) \ EnqueuedOf(pending, ids))
          /\ ticket' = TicketAll(pending, ids, ticket)
    /\ phase' = "recovered"
    /\ everProcessing' = EverProcessing(everProcessing, store')
    /\ UNCHANGED <<qcap, pool, ttl, pure, call, fan, web, sse, now, nextId, boots, cancels, workers, handlers,
                   notified, runs, marks, cancelOK>>


\* mutant: main starts the workers and the server without waiting for Recovery
StartBeforeRecovery ==
    /\ phase = "boot"
    /\ phase' = "serving"
    /\ UNCHANGED <<qcap, pool, ttl, pure, call, fan, web, sse, everProcessing, store,
                   now, nextId, boots, volatile, ghosts>>

\* main: q.Start(ctx), q.StartCleanup and srv.ListenAndServe
Start ==
    /\ phase = "recovered"
    /\ phase' = "serving"
    /\ UNCHANGED <<qcap, pool, ttl, pure, call, fan, web, sse, everProcessing, store, now, nextId, boots,
                   volatile, ghosts>>

\* the process dies and is started again: memory is lost, the database stays
Crash ==
    /\ boots < MaxBoots
    /\ boots' = boots + 1
    /\ phase' = "boot"
    /\ pending' = <<>>
    /\ cancels' = [id \in Jobs |-> 0]
    /\ wpc' = [w \in Workers |-> "idle"]
    /\ wjob' = [w \in Workers |-> NoId]
    /\ wctx' = [w \in Workers |-> "live"]
    /\ wrunErr' = [w \in Workers |-> Nil]
    /\ hpc' = [h \in Handlers |-> "idle"]
    /\ hjob' = [h \in Handlers |-> NoId]
    /\ herr' = [h \in Handlers |-> Nil]
    /\ hcode' = [h \in Handlers |-> 0]
    /\ hop' = [h \in Handlers |-> ""]
    /\ hreq' = [h \in Handlers |-> NoRequest]
    /\ notified' = [id \in Jobs |-> <<>>]
    /\ runs' = [id \in Jobs |-> 0]
    /\ marks' = [id \in Jobs |-> 0]
    /\ enqs' = [id \in Jobs |-> 0]
    /\ ticket' = [id \in Jobs |-> 0]
    /\ UNCHANGED <<qcap, pool, ttl, pure, call, fan, web, sse, everProcessing, store, now, nextId, full,
                   cancelOK>>

\* StartCleanup: if ttlHours <= 0 { return }
StartsCleanup(ttlHours) == ttlHours > 0

\* DeleteTerminalBefore's return value: res.RowsAffected()
Deleted(st, after) ==
    [n |-> Cardinality({id \in Jobs : Exists(st, id) /\ ~Exists(after, id)}),
     err |-> Nil]

\* StartCleanup: the ticker fires one interval later and the body runs
\* store.DeleteTerminalBefore(now - ttl); the clock advances with the ticker
Cleanup ==
    /\ phase = "serving"
    /\ StartsCleanup(ttl)
    /\ now + CleanupIntervalHours <= MaxTime
    /\ now' = now + CleanupIntervalHours
    /\ store' = StoreDeleteTerminalBefore(store, now' - ttl)
    /\ lastOp' = StoreCall("DeleteTerminalBefore", NoId,
                           Before(now' - ttl), "cleanup")
    /\ ret' = Deleted(store, store')
    /\ everProcessing' = EverProcessing(everProcessing, store')
    /\ UNCHANGED <<qcap, pool, ttl, pure, fan, web, sse, nextId, phase, boots, volatile, ghosts>>

(* ------------------------- intake handlers ----------------------------- *)
\* writeJSON / writeError: the handler has answered and returns next
Respond(h, code) ==
    /\ hcode' = [hcode EXCEPT ![h] = code]
    /\ hpc' = [hpc EXCEPT ![h] = "done"]

\* the request goroutine ends
HandlerReturn(h) ==
    /\ phase = "serving" /\ hpc[h] = "done"
    /\ hpc' = [hpc EXCEPT ![h] = "idle"]
    /\ hjob' = [hjob EXCEPT ![h] = NoId]
    /\ herr' = [herr EXCEPT ![h] = Nil]
    /\ hcode' = [hcode EXCEPT ![h] = 0]
    /\ hop' = [hop EXCEPT ![h] = ""]
    /\ hreq' = [hreq EXCEPT ![h] = NoRequest]
    /\ UNCHANGED <<qcap, pool, ttl, pure, call, fan, web, sse, everProcessing, store, now, nextId, phase,
                   boots, pending,
                   cancels,
                   workers, ghosts>>

\* HTTP status CreateJob answers for the value Enqueue returned
CreateJobCode(err) == IF err # Nil THEN 500 ELSE 202

\* what store.Create returns to CreateJob: nil, or the wrapped error of the
\* INSERT that failed
ErrStore == <<"database is locked">>
CreateOutcomes == {Nil, Wrap("create job", ErrStore)}

\* mutant: CreateJob goes on to Enqueue whatever store.Create returned
CreateJobThenAlways(err) == "enqueue"

\* CreateJob: if err := h.store.Create(...); err != nil { writeError; return }
CreateJobThen(err) == IF err # Nil THEN "done" ELSE "enqueue"

\* CreateJob up to and including store.Create, for the request req and the
\* value err that store.Create returns: the decoding of the body, the default
\* model, Validate and the 400 answers, the 500 when Create failed
CreateJobCreate(h, req, err) ==
    /\ phase = "serving" /\ hpc[h] = "idle"
    /\ hop' = [hop EXCEPT ![h] = "CreateJob"]
    /\ hreq' = [hreq EXCEPT ![h] = req]
    /\ IF ~req.decoded \/ Validate(WithDefaultModel(req)) # Nil
       THEN /\ Respond(h, 400)
            /\ UNCHANGED <<store, hjob, nextId, herr>>
       ELSE /\ nextId <= MaxJobs
            /\ store' = IF err # Nil THEN store
                        ELSE StoreCreate(store, NewJob(nextId,
                                                       WithDefaultModel(req)))
            /\ hjob' = [hjob EXCEPT ![h] = nextId]
            /\ nextId' = nextId + 1
            /\ herr' = [herr EXCEPT ![h] = err]
            /\ hpc' = [hpc EXCEPT ![h] = CreateJobThen(err)]
            /\ hcode' = [hcode EXCEPT ![h] = IF err # Nil THEN 500 ELSE @]
    /\ everProcessing' = EverProcessing(everProcessing, store')
    /\ UNCHANGED <<qcap, pool, ttl, pure, call, fan, web, sse, now, phase, boots,
                   pending, cancels, workers, ghosts>>

\* CreateJob from queue.Enqueue to the response
CreateJobEnqueue(h) ==
    /\ phase = "serving" /\ hpc[h] = "enqueue"
    /\ LET id == hjob[h]
           err == EnqueueErr(pending, id)
       IN /\ pending' = EnqueueChan(pending, id)
          /\ herr' = [herr EXCEPT ![h] = err]
          /\ enqs' = [enqs EXCEPT ![id] = IF err = Nil THEN @ + 1 ELSE @]
          /\ full' = IF err = Nil THEN full \ {id} ELSE full \cup {id}
          /\ ticket' = Ticket(pending, id, ticket)
          /\ Respond(h, CreateJobCode(err))
    /\ UNCHANGED <<qcap, pool, ttl, pure, call, fan, web, sse, everProcessing, store, now, nextId, phase,
                   boots, cancels,
                   workers, hjob,
                   hop, hreq, notified, runs, marks, cancelOK>>

\* CancelJob: store.Get and the not-found / terminal checks
CancelJobGet(h, id) ==
    /\ phase = "serving" /\ hpc[h] = "idle"
    /\ hjob' = [hjob EXCEPT ![h] = id]
    /\ hop' = [hop EXCEPT ![h] = "CancelJob"]
    /\ UNCHANGED hreq
    /\ IF ~Exists(store, id) THEN Respond(h, 404)
       ELSE IF IsTerminal(store[id].status) THEN Respond(h, 409)
       ELSE /\ hpc' = [hpc EXCEPT ![h] = "cancel_update"]
            /\ UNCHANGED hcode
    /\ UNCHANGED <<qcap, pool, ttl, pure, call, fan, web, sse, everProcessing, store, now, nextId, phase,
                   boots, pending,
                   cancels,
                   workers, herr, ghosts>>

\* CancelJob: store.UpdateStatus(id, cancelled, "", "job cancelled by user")
CancelJobUpdate(h) ==
    /\ phase = "serving" /\ hpc[h] = "cancel_update"
    /\ store' = StoreUpdateStatus(store, hjob[h], StatusCancelled, "",
                                  "job cancelled by user", now)
    /\ hpc' = [hpc EXCEPT ![h] = "cancel_signal"]
    /\ everProcessing' = EverProcessing(everProcessing, store')
    /\ UNCHANGED <<qcap, pool, ttl, pure, call, fan, web, sse, now, nextId, phase, boots, pending, cancels,
                   workers,
                   hjob, herr, hcode, hop, hreq, ghosts>>

\* Queue.Cancel: cancel, ok := q.cancels[jobID]
CancelFound(id) == cancels[id] # 0

\* mutant: Cancel reaches the worker that holds the job, registered or not
QueueCancelHolder(ctx, id) ==
    [w \in Workers |-> IF wjob[w] = id THEN "canceled" ELSE ctx[w]]

\* Queue.Cancel: invoke the registered CancelFunc, if any
QueueCancel(ctx, id) ==
    IF CancelFound(id)
    THEN [ctx EXCEPT ![cancels[id]] = "canceled"]
    ELSE ctx

\* CancelJob: queue.Cancel(id) and the 200 response
CancelJobSignal(h) ==
    /\ phase = "serving" /\ hpc[h] = "cancel_signal"
    /\ wctx' = QueueCancel(wctx, hjob[h])
    /\ Respond(h, 200)
    /\ cancelOK' = cancelOK \cup {hjob[h]}
    /\ UNCHANGED <<qcap, pool, ttl, pure, call, fan, web, sse, everProcessing, store, now, nextId, phase,
                   boots, pending,
                   cancels, wpc,
                   wjob, wrunErr, hjob, herr, hop, hreq, notified, runs,
                   marks,
                   enqs, full, ticket>>

\* DeleteJob: store.Get and the not-found check
DeleteJobGet(h, id) ==
    /\ phase = "serving" /\ hpc[h] = "idle"
    /\ hjob' = [hjob EXCEPT ![h] = id]
    /\ hop' = [hop EXCEPT ![h] = "DeleteJob"]
    /\ UNCHANGED hreq
    /\ IF ~Exists(store, id) THEN Respond(h, 404)
       ELSE /\ hpc' = [hpc EXCEPT ![h] = "delete"]
            /\ UNCHANGED hcode
    /\ UNCHANGED <<qcap, pool, ttl, pure, call, fan, web, sse, everProcessing, store, now, nextId, phase,
                   boots, pending,
                   cancels,
                   workers, herr, ghosts>>

\* DeleteJob: store.Delete and the 204 response
DeleteJobDelete(h) ==
    /\ phase = "serving" /\ hpc[h] = "delete"
    /\ store' = StoreDelete(store, hjob[h])
    /\ Respond(h, 204)
    /\ everProcessing' = EverProcessing(everProcessing, store')
    /\ UNCHANGED <<qcap, pool, ttl, pure, call, fan, web, sse, now, nextId, phase, boots, pending, cancels,
                   workers,
                   hjob, herr, hop, hreq, ghosts>>

(* ------------------------------ workers -------------------------------- *)
ErrCanceled == <<"context canceled">>
ErrDeadlineExceeded == <<"context deadline exceeded">>
ErrExit == <<"claude exited">>

\* ctx.Err()
CtxErr(c) == IF c = "ctx" /\ mainCtx = "canceled" THEN ErrCanceled ELSE Nil

\* mutant: a switch that treats the deadline like a cancellation
TerminalStatusDeadlineCancelled(runErr) ==
    IF runErr # Nil
    THEN IF ErrorsIs(runErr, ErrCanceled) THEN StatusCancelled
         ELSE IF ErrorsIs(runErr, ErrDeadlineExceeded) THEN StatusCancelled
         ELSE StatusFailed
    ELSE StatusCompleted

\* processJob's switch on runErr
TerminalStatus(runErr) ==
    IF runErr # Nil
    THEN IF ErrorsIs(runErr, ErrCanceled) THEN StatusCancelled
         ELSE IF ErrorsIs(runErr, ErrDeadlineExceeded) THEN StatusFailed
         ELSE StatusFailed
    ELSE StatusCompleted

\* fmt.Sprintf("job timed out after %dm", n)
TimedOutMsg(n) == "job timed out after " \o ToString(n) \o "m"

ErrMsg(runErr) ==
    IF runErr # Nil
    THEN IF ErrorsIs(runErr, ErrCanceled) THEN "job cancelled by user"
         ELSE IF ErrorsIs(runErr, ErrDeadlineExceeded)
              THEN TimedOutMsg(JobTimeoutMinutes)
         ELSE runErr[1]
    ELSE ""

\* worker.Run returns "" with every error and the result text otherwise
ResultOf(runErr) == IF runErr = Nil THEN "out" ELSE ""

\* what cmd.Wait / ctx.Err() can yield for a job context in state c
RunOutcomes(c) ==
    IF c = "canceled" THEN {ErrCanceled, Nil}
    ELSE {Nil, ErrExit} \cup
         (IF JobTimeoutMinutes > 0 THEN {ErrDeadlineExceeded} ELSE {})

\* mutant: the id is read but left in the channel
ReceivePeek(q) == q

\* what a receive leaves in the channel buffer
Receive(q) == Tail(q)

\* mutant: Start launches one goroutine more than configured
StartedOneMore(n) == 1..(n + 1)

\* Start: for range q.cfg.Concurrency { go q.runWorker(ctx) }
Started(n) == 1..n

\* runWorker: receive one id from q.jobs
Dequeue(w) ==
    /\ phase = "serving" /\ wpc[w] = "idle"
    /\ w \in Started(pool)
    /\ pending # <<>>
    /\ wjob' = [wjob EXCEPT ![w] = Head(pending)]
    /\ pending' = Receive(pending)
    /\ wpc' = [wpc EXCEPT ![w] = "get"]
    /\ UNCHANGED <<qcap, pool, ttl, pure, call, fan, web, sse, everProcessing, store, now, nextId, phase,
                   boots, cancels, wctx,
                   wrunErr,
                   handlers, ghosts>>

\* mutant: the worker forgets to look at the status it read
SkipJobNoCancelCheck(row) == FALSE

\* processJob's guard on the job it read: if j.Status == job.StatusCancelled
SkipJob(row) == row.status = StatusCancelled

\* store.Get found no row and returned (nil, nil): err is nil and is not
\* ErrJobNotFound, so processJob goes on to read j.Status through the nil j
NilJob(got) == got.err = Nil /\ got.job = NoJob

\* processJob: store.Get and the skip checks; reading j.Status of a nil j is a
\* nil pointer dereference in the worker's goroutine, which nothing recovers:
\* the process dies
WGet(w) ==
    /\ phase = "serving" /\ wpc[w] = "get"
    /\ IF NilJob(StoreGet(store, wjob[w]))
       THEN /\ phase' = "panicked"
            /\ UNCHANGED <<wpc, wjob>>
       ELSE /\ IF SkipJob(store[wjob[w]])
               THEN /\ wpc' = [wpc EXCEPT ![w] = "idle"]
                    /\ wjob' = [wjob EXCEPT ![w] = NoId]
               ELSE /\ wpc' = [wpc EXCEPT ![w] = "mark"]
                    /\ UNCHANGED wjob
            /\ UNCHANGED phase
    /\ UNCHANGED <<qcap, pool, ttl, pure, call, fan, web, sse, everProcessing, store, now,
                   nextId, boots, pending, cancels, wctx, wrunErr, handlers,
                   ghosts>>

\* processJob: store.MarkProcessing
WMarkProcessing(w) ==
    /\ phase = "serving" /\ wpc[w] = "mark"
    /\ store' = StoreMarkProcessing(store, wjob[w], now)
    /\ marks' = [marks EXCEPT ![wjob[w]] = @ + 1]
    /\ wpc' = [wpc EXCEPT ![w] = "register"]
    /\ everProcessing' = EverProcessing(everProcessing, store')
    /\ UNCHANGED <<qcap, pool, ttl, pure, call, fan, web, sse, now, nextId, phase, boots, pending, cancels,
                   wjob, wctx,
                   wrunErr, handlers, notified, runs, enqs, full, cancelOK, ticket>>

\* processJob: q.notify(status), context.WithCancel / WithTimeout, and
\* q.cancels[jobID] = jobCancel
WRegister(w) ==
    /\ phase = "serving" /\ wpc[w] = "register"
    /\ notified' = [notified EXCEPT ![wjob[w]] = Append(@, "status")]
    /\ wctx' = [wctx EXCEPT ![w] = "live"]
    /\ cancels' = [cancels EXCEPT ![wjob[w]] = w]
    /\ wpc' = [wpc EXCEPT ![w] = "start"]
    /\ UNCHANGED <<qcap, pool, ttl, pure, call, fan, web, sse, everProcessing, store, now, nextId, phase,
                   boots, pending, wjob,
                   wrunErr,
                   handlers, runs, marks, enqs, full, cancelOK, ticket>>

\* worker.Run up to cmd.Start: a context already cancelled starts nothing
WRunStart(w) ==
    /\ phase = "serving" /\ wpc[w] = "start"
    /\ IF wctx[w] = "canceled"
       THEN /\ wrunErr' = [wrunErr EXCEPT ![w] = Wrap("start claude", ErrCanceled)]
            /\ wpc' = [wpc EXCEPT ![w] = "finalize"]
            /\ UNCHANGED runs
       ELSE /\ runs' = [runs EXCEPT ![wjob[w]] = @ + 1]
            /\ wpc' = [wpc EXCEPT ![w] = "running"]
            /\ UNCHANGED wrunErr
    /\ UNCHANGED <<qcap, pool, ttl, pure, call, fan, web, sse, everProcessing, store, now, nextId, phase,
                   boots, pending,
                   cancels, wjob,
                   wctx, handlers, notified, marks, enqs, full, cancelOK, ticket>>

\* worker.Run from the running child process to its return
WRunEnd(w) ==
    /\ phase = "serving" /\ wpc[w] = "running"
    /\ \E e \in RunOutcomes(wctx[w]) : wrunErr' = [wrunErr EXCEPT ![w] = e]
    /\ wpc' = [wpc EXCEPT ![w] = "finalize"]
    /\ UNCHANGED <<qcap, pool, ttl, pure, call, fan, web, sse, everProcessing, store, now, nextId, phase,
                   boots, pending,
                   cancels, wjob,
                   wctx, handlers, ghosts>>

\* finalizeJob: store.UpdateStatus(ctx, ...), which fails without touching
\* the row when ctx is already cancelled
WUpdateStatus(w) ==
    /\ phase = "serving" /\ wpc[w] = "finalize"
    /\ store' = IF CtxErr("ctx") # Nil
                THEN store
                ELSE StoreUpdateStatus(store, wjob[w],
                                       TerminalStatus(wrunErr[w]),
                                       ResultOf(wrunErr[w]),
                                       ErrMsg(wrunErr[w]), now)
    /\ wpc' = [wpc EXCEPT ![w] = "close"]
    /\ everProcessing' = EverProcessing(everProcessing, store')
    /\ UNCHANGED <<qcap, pool, ttl, pure, call, fan, web, sse, now, nextId, phase, boots, pending, cancels,
                   wjob, wctx,
                   wrunErr, handlers, ghosts>>

\* finalizeJob: q.notifyAndClose(result) and webhook.Send; then processJob
\* returns through its deferred delete(q.cancels, jobID)
WFinish(w) ==
    /\ phase = "serving" /\ wpc[w] = "close"
    /\ notified' = [notified EXCEPT ![wjob[w]] = Append(@, "result")]
    /\ cancels' = [cancels EXCEPT ![wjob[w]] = 0]
    /\ wpc' = [wpc EXCEPT ![w] = "idle"]
    /\ wjob' = [wjob EXCEPT ![w] = NoId]
    /\ wctx' = [wctx EXCEPT ![w] = "live"]
    /\ wrunErr' = [wrunErr EXCEPT ![w] = Nil]
    /\ WebhookSend(wjob[w])
    /\ UNCHANGED <<qcap, pool, ttl, pure, call, fan, sse, everProcessing, store, now, nextId, phase,
                   boots, pending,
                   handlers,
                   runs, marks, enqs, full, cancelOK, ticket>>

Intake ==
    \E h \in Handlers :
        \/ CreateJobCreate(h, PlainRequest, Nil) \/ CreateJobEnqueue(h)
        \/ CancelJobUpdate(h) \/ CancelJobSignal(h)
        \/ DeleteJobDelete(h) \/ HandlerReturn(h)
        \/ \E id \in Jobs : CancelJobGet(h, id) \/ DeleteJobGet(h, id)

Work ==
    \E w \in Workers :
        \/ Dequeue(w) \/ WGet(w) \/ WMarkProcessing(w) \/ WRegister(w)
        \/ WRunStart(w) \/ WRunEnd(w) \/ WUpdateStatus(w) \/ WFinish(w)

Next == Recovery \/ Start \/ Crash \/ Cleanup \/ Intake \/ Work

Spec == Init /\ [][Next]_vars

\* one process lifetime: the process is started once and never dies
NextRun == Recovery \/ Start \/ Cleanup \/ Intake \/ Work

SpecRun == Init /\ [][NextRun]_vars

\* one process lifetime for every configured queue size up to MaxQueueSize
InitQueue == \E c \in QueueSize..MaxQueueSize : InitWith(c, EmptyStore, 1, 0)

SpecQueue == InitQueue /\ [][NextRun]_vars

\* one process lifetime for every configured pool size up to Concurrency
InitPools ==
    \E k \in 1..Concurrency :
        InitPool(k, NoText, JobTTLHours, QueueSize, EmptyStore, 1, 0)

SpecPool == InitPools /\ [][NextRun]_vars

\* clients that submit jobs with any of the Requests
Submit ==
    \E h \in Handlers :
        \/ \E req \in Requests : \E err \in CreateOutcomes :
                CreateJobCreate(h, req, err)
        \/ CreateJobEnqueue(h) \/ HandlerReturn(h)

NextIntake == Recovery \/ Start \/ Submit \/ Work

SpecIntake == Init /\ [][NextIntake]_vars

\* scheduling: main runs Recovery and Start to their end, and a worker
\* goroutine that can take a step eventually takes it
WorkerStep(w) ==
    \/ Dequeue(w) \/ WGet(w) \/ WMarkProcessing(w) \/ WRegister(w)
    \/ WRunStart(w) \/ WRunEnd(w) \/ WUpdateStatus(w) \/ WFinish(w)

Fairness ==
    /\ WF_vars(Recovery) /\ WF_vars(Start)
    /\ \A w \in Workers : WF_vars(WorkerStep(w))

\* the row of a job that a worker had marked processing at time 1
ProcessingRow ==
    StoreMarkProcessing(StoreCreate(EmptyStore,
                                    NewJob(1, WithDefaultModel(PlainRequest))),
                        1, 1)[1]

\* the database a process leaves when it dies with every job it accepted in
\* the hands of a worker
CrashedStore == [id \in Jobs |-> [ProcessingRow EXCEPT !.id = id]]

\* the process is started again on such a database, with a queue that has
\* room for these jobs
InitCrashed == InitWith(MaxQueueSize, CrashedStore, MaxJobs + 1, MaxBoots)

\* clients that cancel and delete jobs but submit no new one
Client ==
    \E h \in Handlers :
        \/ CancelJobUpdate(h) \/ CancelJobSignal(h)
        \/ DeleteJobDelete(h) \/ HandlerReturn(h)
        \/ \E id \in Jobs : CancelJobGet(h, id) \/ DeleteJobGet(h, id)

NextLive == Recovery \/ Start \/ Cleanup \/ Client \/ Work

SpecLive == InitCrashed /\ [][NextLive]_vars /\ Fairness

Range(f) == {f[i] : i \in DOMAIN f}

(* ------------------------------ fan-out -------------------------------- *)
\* q.subs[jobID]: the slice of the entry, nil when the map has no entry
Chans(m, id) == IF id \in DOMAIN m THEN m[id] ELSE <<>>

\* q.subs[jobID] = chans
MapPut(m, id, chans) ==
    [j \in DOMAIN m \cup {id} |-> IF j = id THEN chans ELSE m[j]]

\* delete(q.subs, jobID)
MapDelete(m, id) == [j \in DOMAIN m \ {id} |-> m[j]]

\* mutant: Unsubscribe leaves the empty slice in the map
KeepEmpty(m, id) == m

\* Unsubscribe: if len(q.subs[jobID]) == 0 { delete(q.subs, jobID) }
DeleteIfEmpty(m, id) == IF Len(Chans(m, id)) = 0 THEN MapDelete(m, id) ELSE m

\* mutant: a full channel gives up its oldest event for the new one
ChanSendEvict(buf, ev) ==
    IF Len(buf) < SinkCap THEN Append(buf, ev) ELSE Append(Tail(buf), ev)

\* mutant: notify iterates without holding the read lock
RLockNotHeld(holders, p) == holders

\* q.mu.RLock(): the caller joins the holders of the read lock
RLock(holders, p) == holders \cup {p}

\* q.mu.RUnlock()
RUnlock(holders, p) == holders \ {p}

\* mutant: a channel that hands out the newest event first
ChanSendFront(buf, ev) == IF Len(buf) < SinkCap THEN <<ev>> \o buf ELSE buf

\* what a non-blocking send leaves in the buffer of an open channel:
\* select { case ch <- event: default: }
ChanSend(buf, ev) == IF Len(buf) < SinkCap THEN Append(buf, ev) ELSE buf

\* the send of notify / notifyAndClose on sink s, as the runtime executes it
TrySend(s, ev) ==
    IF sclosed[s]
    THEN /\ panic' = "send on closed channel"
         /\ UNCHANGED sbuf
    ELSE /\ sbuf' = [sbuf EXCEPT ![s] = ChanSend(@, ev)]
         /\ UNCHANGED panic

\* append(chans[:i], chans[i+1:]...) for the first i with chans[i] = ch
RECURSIVE RemoveFirst(_, _)
RemoveFirst(chans, ch) ==
    IF chans = <<>> THEN <<>>
    ELSE IF Head(chans) = ch THEN Tail(chans)
    ELSE <<Head(chans)>> \o RemoveFirst(Tail(chans), ch)

\* notify: RLock and the evaluation of the range expression q.subs[jobID]
NotifyRLock(p, id, ev) ==
    /\ panic = "" /\ fpc[p] = "idle"
    /\ mu' = RLock(mu, p)
    /\ fchans' = [fchans EXCEPT ![p] = Chans(subs, id)]
    /\ fi' = [fi EXCEPT ![p] = 1]
    /\ fev' = [fev EXCEPT ![p] = ev]
    /\ fpc' = [fpc EXCEPT ![p] = "notify"]
    /\ UNCHANGED <<sched, pure, call, web, sse, sid, subs, sbuf, sclosed, sstate, rcvd, eof, panic,
                   atClose>>

\* notify: one iteration of the loop
NotifySend(p) ==
    /\ panic = "" /\ fpc[p] = "notify"
    /\ fi[p] <= Len(fchans[p])
    /\ TrySend(fchans[p][fi[p]], fev[p])
    /\ fi' = [fi EXCEPT ![p] = @ + 1]
    /\ UNCHANGED <<sched, pure, call, web, sse, sid, subs, mu, sclosed, sstate, rcvd, eof, fpc, fev,
                   fchans, emitted, finalized, atClose>>

\* notify: the loop is over, the deferred RUnlock runs
NotifyRUnlock(p) ==
    /\ panic = "" /\ fpc[p] = "notify"
    /\ fi[p] > Len(fchans[p])
    /\ mu' = RUnlock(mu, p)
    /\ fpc' = [fpc EXCEPT ![p] = "idle"]
    /\ fev' = [fev EXCEPT ![p] = NoEvent]
    /\ fchans' = [fchans EXCEPT ![p] = <<>>]
    /\ fi' = [fi EXCEPT ![p] = 0]
    /\ UNCHANGED <<sched, pure, call, web, sse, sid, subs, sbuf, sclosed, sstate, rcvd, eof, panic,
                   emitted, finalized, atClose>>

\* notifyAndClose: Lock, chans := q.subs[jobID], delete(q.subs, jobID), Unlock
CloseLock(p, id, ev) ==
    /\ panic = "" /\ fpc[p] = "idle"
    /\ mu = {}
    /\ subs' = MapDelete(subs, id)
    /\ atClose' = atClose \cup Range(Chans(subs, id))
    /\ IF Chans(subs, id) = <<>>
       THEN UNCHANGED <<fpc, fev, fchans, fi>>
       ELSE /\ fchans' = [fchans EXCEPT ![p] = Chans(subs, id)]
            /\ fi' = [fi EXCEPT ![p] = 1]
            /\ fev' = [fev EXCEPT ![p] = ev]
            /\ fpc' = [fpc EXCEPT ![p] = "nac_send"]
    /\ UNCHANGED <<sched, pure, call, web, sse, sid, mu, sbuf, sclosed, sstate, rcvd, eof, panic>>

\* notifyAndClose: the non-blocking send of one iteration
CloseSend(p) ==
    /\ panic = "" /\ fpc[p] = "nac_send"
    /\ TrySend(fchans[p][fi[p]], fev[p])
    /\ fpc' = [fpc EXCEPT ![p] = "nac_close"]
    /\ UNCHANGED <<sched, pure, call, web, sse, sid, subs, mu, sclosed, sstate, rcvd, eof, fev, fchans,
                   fi, emitted, finalized, atClose>>

\* notifyAndClose: close(ch) of one iteration; the function returns after the
\* last one
CloseClose(p) ==
    /\ panic = "" /\ fpc[p] = "nac_close"
    /\ IF sclosed[fchans[p][fi[p]]]
       THEN /\ panic' = "close of closed channel"
            /\ UNCHANGED <<sclosed, fpc, fev, fchans, fi>>
       ELSE /\ sclosed' = [sclosed EXCEPT ![fchans[p][fi[p]]] = TRUE]
            /\ UNCHANGED panic
            /\ IF fi[p] < Len(fchans[p])
               THEN /\ fi' = [fi EXCEPT ![p] = @ + 1]
                    /\ fpc' = [fpc EXCEPT ![p] = "nac_send"]
                    /\ UNCHANGED <<fev, fchans>>
               ELSE /\ fpc' = [fpc EXCEPT ![p] = "idle"]
                    /\ fev' = [fev EXCEPT ![p] = NoEvent]
                    /\ fchans' = [fchans EXCEPT ![p] = <<>>]
                    /\ fi' = [fi EXCEPT ![p] = 0]
    /\ UNCHANGED <<sched, pure, call, web, sse, sid, subs, mu, sbuf, sstate, rcvd, eof, emitted,
                   finalized, atClose>>

\* Subscribe, called by StreamSSE: make(chan SSEEvent, 64) and the append
\* under the write lock
Subscribe(s, id) ==
    /\ panic = "" /\ sstate[s] = "new"
    /\ mu = {}
    /\ subs' = MapPut(subs, id, Append(Chans(subs, id), s))
    /\ sid' = [sid EXCEPT ![s] = id]
    /\ sstate' = [sstate EXCEPT ![s] = "open"]
    /\ UNCHANGED <<sched, pure, call, web, mu, sbuf, sclosed, rcvd, eof, fpc, fev, fchans, fi,
                   panic, emitted, finalized, atClose>>

\* StreamSSE: event, open := <-ch with a buffered event
Recv(s) ==
    /\ panic = "" /\ sstate[s] = "open"
    /\ sbuf[s] # <<>>
    /\ rcvd' = [rcvd EXCEPT ![s] = Append(@, Head(sbuf[s]))]
    /\ sbuf' = [sbuf EXCEPT ![s] = Tail(@)]
    /\ UNCHANGED <<sched, pure, call, web, sse, sid, subs, mu, sclosed, sstate, eof, fpc, fev, fchans,
                   fi, panic, emitted, finalized, atClose>>

\* StreamSSE: the receive on the drained, closed channel; the handler returns
RecvClosed(s) ==
    /\ panic = "" /\ sstate[s] = "open"
    /\ sbuf[s] = <<>> /\ sclosed[s]
    /\ eof' = [eof EXCEPT ![s] = TRUE]
    /\ sstate' = [sstate EXCEPT ![s] = "return"]
    /\ UNCHANGED <<sched, pure, call, web, sse, sid, subs, mu, sbuf, sclosed, rcvd, fpc, fev, fchans,
                   fi, panic, emitted, finalized, atClose>>

\* StreamSSE: <-r.Context().Done(), the client went away; the handler returns
Disconnect(s) ==
    /\ panic = "" /\ sstate[s] = "open"
    /\ sstate' = [sstate EXCEPT ![s] = "return"]
    /\ UNCHANGED <<sched, pure, call, web, sse, sid, subs, mu, sbuf, sclosed, rcvd, eof, fpc, fev,
                   fchans, fi, panic, emitted, finalized, atClose>>

\* Unsubscribe, deferred by StreamSSE
Unsubscribe(s) ==
    /\ panic = "" /\ sstate[s] = "return"
    /\ mu = {}
    /\ subs' = DeleteIfEmpty(MapPut(subs, sid[s],
                                    RemoveFirst(Chans(subs, sid[s]), s)),
                             sid[s])
    /\ sstate' = [sstate EXCEPT ![s] = "left"]
    /\ UNCHANGED <<sched, pure, call, web, sse, sid, mu, sbuf, sclosed, rcvd, eof, fpc, fev, fchans, fi,
                   panic, emitted, finalized, atClose>>

Stream ==
    \E s \in Sinks :
        \/ Subscribe(s, Streamed) /\ UNCHANGED sse
        \/ Recv(s) \/ RecvClosed(s) \/ Disconnect(s) \/ Unsubscribe(s)

Iterate ==
    \E p \in Procs :
        \/ NotifySend(p) \/ NotifyRUnlock(p) \/ CloseSend(p) \/ CloseClose(p)

\* the registry as a concurrent object: any goroutine calls notify or
\* notifyAndClose at any time
CallNotify(p, ev) ==
    /\ emitted < MaxCalls
    /\ NotifyRLock(p, Streamed, ev)
    /\ emitted' = emitted + 1
    /\ UNCHANGED finalized

CallNotifyAndClose(p, ev) ==
    /\ emitted < MaxCalls
    /\ CloseLock(p, Streamed, ev)
    /\ emitted' = emitted + 1
    /\ UNCHANGED finalized

Call ==
    \E p \in Procs : \E ev \in {EvStatus, EvResult} :
        CallNotify(p, ev) \/ CallNotifyAndClose(p, ev)

NextFanout == Call \/ Iterate \/ Stream

SpecFanout == Init /\ [][NextFanout]_vars

\* the registry with subscribers and events of every job: handlers subscribe
\* to any job and leave, goroutines notify and finalize any job; the n-th call
\* sends the chunk n, so that every event is told from the others
CallAny ==
    \E p \in Procs : \E id \in Jobs :
        \/ /\ emitted < MaxCalls
           /\ NotifyRLock(p, id, EvChunk(emitted))
           /\ emitted' = emitted + 1
           /\ UNCHANGED finalized
        \/ /\ emitted < MaxCalls
           /\ CloseLock(p, id, EvResult)
           /\ emitted' = emitted + 1
           /\ UNCHANGED finalized

StreamAny ==
    \E s \in Sinks :
        \/ \E id \in Jobs : Subscribe(s, id) /\ UNCHANGED sse
        \/ Disconnect(s) \/ Unsubscribe(s)

NextRegistry == CallAny \/ Iterate \/ StreamAny

SpecRegistry == Init /\ [][NextRegistry]_vars

\* the worker that processes the job: the only caller, in program order
Worker == 1

\* processJob: q.notify(jobID, status)
EmitStatus ==
    /\ emitted = 0
    /\ NotifyRLock(Worker, Streamed, EvStatus)
    /\ emitted' = 1
    /\ UNCHANGED finalized

\* chunkWriter.WriteChunk, called by worker.Run for each text block
EmitChunk ==
    /\ ~finalized
    /\ emitted >= 1 /\ emitted <= MaxChunks
    /\ NotifyRLock(Worker, Streamed, EvChunk(emitted))
    /\ emitted' = emitted + 1
    /\ UNCHANGED finalized

\* finalizeJob: q.notifyAndClose(jobID, result)
EmitResult ==
    /\ ~finalized
    /\ emitted >= 1
    /\ CloseLock(Worker, Streamed, EvResult)
    /\ emitted' = emitted + 1
    /\ finalized' = TRUE

Emit == EmitStatus \/ EmitChunk \/ EmitResult

NextStream == Emit \/ Iterate \/ Stream

SpecStream == Init /\ [][NextStream]_vars

\* send: the loop head, attempt <= retryAttempts and ctx.Err() != nil
SendLoop(id) ==
    /\ phase = "serving" /\ hookpc[id] = "loop"
    /\ hookpc' = [hookpc EXCEPT ![id] =
                    IF LoopCond(attempt[id]) /\ CtxErr(hctx[id]) = Nil
                    THEN "post" ELSE "done"]
    /\ UNCHANGED <<sched, pure, call, fan, sse, mainCtx, callback, hctx, attempt, posted,
                   failed, sleeps, last>>

\* send: post(ctx, client, callbackURL, payload) and what follows it up to
\* the sleep or the next turn of the loop
SendPost(id) ==
    /\ phase = "serving" /\ hookpc[id] = "post"
    /\ \E r \in Responses :
        /\ posted' = [posted EXCEPT ![id] = @ + 1]
        /\ last' = [last EXCEPT ![id] = r]
        /\ IF PostErr(r) = Nil
           THEN /\ hookpc' = [hookpc EXCEPT ![id] = "done"]
                /\ UNCHANGED <<failed, attempt>>
           ELSE /\ failed' = [failed EXCEPT ![id] = @ + 1]
                /\ IF attempt[id] < retryAttempts
                   THEN /\ hookpc' = [hookpc EXCEPT ![id] = "sleep"]
                        /\ UNCHANGED attempt
                   ELSE /\ hookpc' = [hookpc EXCEPT ![id] = "loop"]
                        /\ attempt' = [attempt EXCEPT ![id] = @ + 1]
    /\ UNCHANGED <<sched, pure, call, fan, sse, mainCtx, callback, hctx, sleeps>>

\* send: time.Sleep(jitter(attempt)) returns, attempt++
SendSleep(id) ==
    /\ phase = "serving" /\ hookpc[id] = "sleep"
    /\ sleeps' = [sleeps EXCEPT ![id] = @ + 1]
    /\ attempt' = [attempt EXCEPT ![id] = @ + 1]
    /\ hookpc' = [hookpc EXCEPT ![id] = "loop"]
    /\ UNCHANGED <<sched, pure, call, fan, sse, mainCtx, callback, hctx, posted, failed,
                   last>>

\* main's signal goroutine: cancel(); every job context derives from ctx
Shutdown ==
    /\ phase = "serving" /\ mainCtx = "live"
    /\ mainCtx' = "canceled"
    /\ wctx' = [w \in Workers |->
                  IF wjob[w] # NoId THEN "canceled" ELSE wctx[w]]
    /\ UNCHANGED <<qcap, pool, ttl, pure, call, fan, sse, everProcessing, store, now, nextId, phase,
                   boots, pending, cancels, wpc, wjob, wrunErr, handlers,
                   ghosts, callback, hookpc, hctx, attempt, posted, failed,
                   sleeps, last>>

\* main returns once ListenAndServe has returned ErrServerClosed: the
\* process is gone with all its goroutines
Exit ==
    /\ phase = "serving" /\ mainCtx = "canceled"
    /\ phase' = "exit"
    /\ UNCHANGED <<qcap, pool, ttl, pure, call, fan, web, sse, everProcessing, store, now, nextId,
                   boots, volatile, ghosts>>

\* a serving process that has accepted one job, submitted with the callback
\* URL u, and whose first worker is running the job's child process
InitRunningAt(b, u) ==
    /\ InitText(NoText)
    /\ ttl = JobTTLHours
    /\ InitCall
    /\ qcap = QueueSize
    /\ pool = Concurrency
    /\ ticket = [id \in Jobs |-> IF id = 1 THEN 1 ELSE 0]
    /\ everProcessing = {1}
    /\ store = [id \in Jobs |-> IF id = 1 THEN ProcessingRow ELSE NoJob]
    /\ now = 1
    /\ nextId = 2
    /\ phase = "serving"
    /\ boots = b
    /\ pending = <<>>
    /\ cancels = [id \in Jobs |-> IF id = 1 THEN 1 ELSE 0]
    /\ wpc = [w \in Workers |-> IF w = 1 THEN "running" ELSE "idle"]
    /\ wjob = [w \in Workers |-> IF w = 1 THEN 1 ELSE NoId]
    /\ wctx = [w \in Workers |-> "live"]
    /\ wrunErr = [w \in Workers |-> Nil]
    /\ hpc = [h \in Handlers |-> "idle"]
    /\ hjob = [h \in Handlers |-> NoId]
    /\ herr = [h \in Handlers |-> Nil]
    /\ hcode = [h \in Handlers |-> 0]
    /\ hop = [h \in Handlers |-> ""]
    /\ hreq = [h \in Handlers |-> NoRequest]
    /\ notified = [id \in Jobs |-> IF id = 1 THEN <<"status">> ELSE <<>>]
    /\ runs = [id \in Jobs |-> IF id = 1 THEN 1 ELSE 0]
    /\ marks = [id \in Jobs |-> IF id = 1 THEN 1 ELSE 0]
    /\ enqs = [id \in Jobs |-> IF id = 1 THEN 1 ELSE 0]
    /\ full = {}
    /\ cancelOK = {}
    /\ InitFan
    /\ InitWeb([id \in Jobs |-> IF id = 1 THEN u ELSE NoURL])
    /\ InitSSE

\* the same in a process that will not be started again
InitRunning(u) == InitRunningAt(MaxBoots, u)

InitWebhook == \E u \in URLs : InitRunning(u)

Finish == \E w \in Workers : WRunEnd(w) \/ WUpdateStatus(w) \/ WFinish(w)

CancelJob ==
    \E h \in Handlers :
        \/ CancelJobUpdate(h) \/ CancelJobSignal(h) \/ HandlerReturn(h)
        \/ \E id \in Jobs : CancelJobGet(h, id)

Deliver == \E id \in Jobs : SendLoop(id) \/ SendPost(id) \/ SendSleep(id)

NextWebhook == Finish \/ CancelJob \/ Deliver \/ Shutdown \/ Exit

SpecWebhook == InitWebhook /\ [][NextWebhook]_vars

(* ---------------------------- StreamSSE -------------------------------- *)
\* the job whose registry entry subs is: r.PathValue("id") of the streams
\* StreamSSE's own test for "already terminal"
StreamTerminal(status) == status = StatusCompleted \/ status = StatusFailed

\* StreamSSE: store.Get and the 404 for a missing job
StreamSSEGet(s) ==
    /\ phase = "serving" /\ spc[s] = "get"
    /\ sj' = [sj EXCEPT ![s] = store[Streamed]]
    /\ IF ~Exists(store, Streamed)
       THEN /\ scode' = [scode EXCEPT ![s] = 404]
            /\ spc' = [spc EXCEPT ![s] = "done"]
       ELSE /\ spc' = [spc EXCEPT ![s] = "branch"]
            /\ UNCHANGED scode
    /\ UNCHANGED <<sched, pure, call, fan, web, swrote>>

\* StreamSSE: the job was read terminal; one result event, then return
StreamSSEResult(s) ==
    /\ phase = "serving" /\ spc[s] = "branch"
    /\ StreamTerminal(sj[s].status)
    /\ swrote' = [swrote EXCEPT ![s] = Append(@, "result")]
    /\ spc' = [spc EXCEPT ![s] = "done"]
    /\ UNCHANGED <<sched, pure, call, fan, web, sj, scode>>

\* StreamSSE: h.queue.Subscribe(id), then the status event with the job
StreamSSESubscribe(s) ==
    /\ phase = "serving" /\ spc[s] = "branch"
    /\ ~StreamTerminal(sj[s].status)
    /\ Subscribe(s, Streamed)
    /\ swrote' = [swrote EXCEPT ![s] = Append(@, "status")]
    /\ spc' = [spc EXCEPT ![s] = "stream"]
    /\ UNCHANGED <<sj, scode>>

\* the rows a job can be left in by an earlier run of the process
Created ==
    StoreCreate(EmptyStore, NewJob(Streamed, WithDefaultModel(PlainRequest)))
Marked == StoreMarkProcessing(Created, Streamed, 1)
Persisted ==
    { EmptyStore, Created, Marked,
      StoreUpdateStatus(Marked, Streamed, StatusCompleted, "out", "", 1),
      StoreUpdateStatus(Marked, Streamed, StatusFailed, "", "claude exited",
                        1),
      StoreUpdateStatus(Created, Streamed, StatusCancelled, "",
                        "job cancelled by user", 1) }

InitSSEStore ==
    \E st \in Persisted :
        InitWith(QueueSize, st, IF Exists(st, Streamed) THEN 2 ELSE 1,
                 MaxBoots)

StreamSSE ==
    \E s \in Sinks :
        \/ StreamSSEGet(s) \/ StreamSSEResult(s) \/ StreamSSESubscribe(s)
        \/ Disconnect(s) \/ Unsubscribe(s)

NextSSE == Recovery \/ Start \/ StreamSSE

SpecSSE == InitSSEStore /\ [][NextSSE]_vars

(* ------------------------ the store, called directly ------------------- *)
\* jobs a caller hands to Create for the id: as the handler builds them, and
\* with every field set and a status other than queued
JobInputs(id) ==
    { Job(id, "Hello world", "haiku", "", "", StatusQueued),
      Job(id, "Hello world", "opus", "{\"k\":1}", "json", StatusCompleted) }

\* the (status, result, error) a caller hands to UpdateStatus
UpdateArgs ==
    { [status |-> StatusCompleted, result |-> "out", error |-> ""],
      [status |-> StatusFailed, result |-> "", error |-> "claude exited"],
      [status |-> StatusCancelled, result |-> "",
       error |-> "job cancelled by user"] }

\* the clock moves between two calls
Tick ==
    /\ phase = "serving"
    /\ now < MaxTime
    /\ now' = now + 1
    /\ UNCHANGED <<qcap, pool, ttl, pure, call, fan, web, sse, everProcessing, store,
                   nextId, phase, boots, volatile, ghosts>>

\* store.Create(ctx, j) with an id that is not in the table
CallCreate(j) ==
    /\ phase = "serving"
    /\ ~Exists(store, j.ID)
    /\ store' = StoreCreate(store, j)
    /\ lastOp' = StoreCall("Create", j.ID, j, "caller")
    /\ ret' = ErrOnly(Nil)
    /\ everProcessing' = EverProcessing(everProcessing, store')
    /\ UNCHANGED <<qcap, pool, ttl, pure, fan, web, sse, now, nextId, phase, boots,
                   volatile, ghosts>>

\* store.Get(ctx, id)
CallGet(id) ==
    /\ phase = "serving"
    /\ lastOp' = StoreCall("Get", id, NoArg, "caller")
    /\ ret' = StoreGet(store, id)
    /\ UNCHANGED <<qcap, pool, ttl, pure, fan, web, sse, everProcessing, store, now,
                   nextId, phase, boots, volatile, ghosts>>

\* store.UpdateStatus(ctx, id, status, result, errMsg)
CallUpdateStatus(id, a) ==
    /\ phase = "serving"
    /\ store' = StoreUpdateStatus(store, id, a.status, a.result, a.error, now)
    /\ lastOp' = StoreCall("UpdateStatus", id, a, "caller")
    /\ ret' = ErrOnly(Nil)
    /\ everProcessing' = EverProcessing(everProcessing, store')
    /\ UNCHANGED <<qcap, pool, ttl, pure, fan, web, sse, now, nextId, phase, boots,
                   volatile, ghosts>>

\* store.MarkProcessing(ctx, id)
CallMarkProcessing(id) ==
    /\ phase = "serving"
    /\ store' = StoreMarkProcessing(store, id, now)
    /\ lastOp' = StoreCall("MarkProcessing", id, NoArg, "caller")
    /\ ret' = ErrOnly(Nil)
    /\ everProcessing' = EverProcessing(everProcessing, store')
    /\ UNCHANGED <<qcap, pool, ttl, pure, fan, web, sse, now, nextId, phase, boots,
                   volatile, ghosts>>

\* store.Delete(ctx, id)
CallDelete(id) ==
    /\ phase = "serving"
    /\ store' = StoreDelete(store, id)
    /\ lastOp' = StoreCall("Delete", id, NoArg, "caller")
    /\ ret' = ErrOnly(Nil)
    /\ everProcessing' = EverProcessing(everProcessing, store')
    /\ UNCHANGED <<qcap, pool, ttl, pure, fan, web, sse, now, nextId, phase, boots,
                   volatile, ghosts>>

\* store.DeleteTerminalBefore(ctx, before)
CallDeleteTerminalBefore(before) ==
    /\ phase = "serving"
    /\ store' = StoreDeleteTerminalBefore(store, before)
    /\ lastOp' = StoreCall("DeleteTerminalBefore", NoId, Before(before),
                           "caller")
    /\ ret' = Deleted(store, store')
    /\ everProcessing' = EverProcessing(everProcessing, store')
    /\ UNCHANGED <<qcap, pool, ttl, pure, fan, web, sse, now, nextId, phase, boots,
                   volatile, ghosts>>

\* the process is configured with a TTL of zero or with JobTTLHours
InitStore ==
    \E tt \in {0, JobTTLHours} :
        InitConfig(tt, QueueSize, EmptyStore, 1, MaxBoots)

NextStore ==
    \/ Recovery \/ Start \/ Cleanup \/ Tick
    \/ \E id \in Jobs :
        \/ \E j \in JobInputs(id) : CallCreate(j)
        \/ CallGet(id) \/ CallMarkProcessing(id) \/ CallDelete(id)
        \/ \E a \in UpdateArgs : CallUpdateStatus(id, a)
    \/ \E before \in 1..MaxTime : CallDeleteTerminalBefore(before)

SpecStore == InitStore /\ [][NextStore]_vars

(* --------------------------- stripCodeFences --------------------------- *)
\* a text is a sequence of characters: the backquote, the newline, the space
\* and an ordinary character
Backquote == "bq"
Newline == "\n"
Space == " "
Letter == "a"

Alphabet == {Backquote, Newline, Space, Letter}

Texts == UNION {[1..n -> Alphabet] : n \in 0..MaxText}

\* unicode.IsSpace on the characters of the alphabet
IsSpace(c) == c \in {Space, Newline}

\* strings.TrimSpace: leading and trailing white space removed
TrimSpace(s) ==
    LET black == {i \in 1..Len(s) : ~IsSpace(s[i])}
    IN IF black = {} THEN <<>>
       ELSE SubSeq(s, CHOOSE i \in black : \A j \in black : i <= j,
                      CHOOSE i \in black : \A j \in black : i >= j)

\* strings.HasPrefix / strings.HasSuffix
HasPrefix(s, p) == Len(s) >= Len(p) /\ SubSeq(s, 1, Len(p)) = p
HasSuffix(s, p) ==
    Len(s) >= Len(p) /\ SubSeq(s, Len(s) - Len(p) + 1, Len(s)) = p

\* strings.TrimSuffix: s without the suffix p if it ends with p
TrimSuffix(s, p) ==
    IF HasSuffix(s, p) THEN SubSeq(s, 1, Len(s) - Len(p)) ELSE s

\* strings.Index(s, c) for a one-character c: the 0-based index of the first
\* c in s, -1 if there is none
Index(s, c) ==
    LET at == {i \in 1..Len(s) : s[i] = c}
    IN IF at = {} THEN -1
       ELSE (CHOOSE i \in at : \A j \in at : i <= j) - 1

\* the three backquotes of a fence
Fence == <<Backquote, Backquote, Backquote>>

\* s[idx+1:] for the 0-based idx
SliceFrom(s, idx) == SubSeq(s, idx + 2, Len(s))

stripCodeFences(s) ==
    LET t == TrimSpace(s)
        idx == Index(t, Newline)
        opened == IF idx # -1 THEN SliceFrom(t, idx) ELSE t
    IN IF HasPrefix(t, Fence)
       THEN TrimSpace(TrimSuffix(opened, Fence))
       ELSE t

\* a caller applies stripCodeFences to the text, and again to what it returned
Strip ==
    /\ Len(out) <= Applications
    /\ out' = Append(out, stripCodeFences(out[Len(out)]))
    /\ UNCHANGED <<sched, call, fan, web, sse, text>>

InitStrip ==
    \E s \in Texts :
        InitProcess(s, JobTTLHours, QueueSize, EmptyStore, 1, MaxBoots)

SpecStrip == InitStrip /\ [][Strip]_vars

(* ------------------- finalization with stream handlers ----------------- *)
\* mutant: finalizeJob sends the result event before it writes the store
WNotifyAndCloseFirst(w) ==
    /\ phase = "serving" /\ wpc[w] = "finalize" /\ ~finalized
    /\ CloseLock(w, wjob[w], EvResult)
    /\ finalized' = TRUE
    /\ UNCHANGED emitted

\* finalizeJob: q.notifyAndClose(jobID, result) takes the registry entry of
\* the job; its sends and closes are the steps CloseSend and CloseClose
WNotifyAndClose(w) ==
    /\ phase = "serving" /\ wpc[w] = "close" /\ ~finalized
    /\ CloseLock(w, wjob[w], EvResult)
    /\ finalized' = TRUE
    /\ UNCHANGED emitted

\* notifyAndClose has returned to finalizeJob
Closed(w) == finalized /\ fpc[w] = "idle"

\* finalizeJob from the return of notifyAndClose: webhook.Send, then
\* processJob returns
WSendAndReturn(w) == Closed(w) /\ WFinish(w)

\* processJob from the return of worker.Run to its own return, on the
\* registry that the stream handlers subscribe to
Finalize ==
    \/ WRunEnd(Worker) \/ WUpdateStatus(Worker) \/ WNotifyAndClose(Worker)
    \/ CloseSend(Worker) \/ CloseClose(Worker) \/ WSendAndReturn(Worker)

\* StreamSSE requests for the job, from store.Get to the deferred Unsubscribe
Streams ==
    \E s \in Sinks :
        \/ StreamSSEGet(s) \/ StreamSSEResult(s) \/ StreamSSESubscribe(s)
        \/ Recv(s) \/ RecvClosed(s) \/ Disconnect(s) \/ Unsubscribe(s)

\* the job was submitted with a callback URL that passes ValidateURL
InitFinalize == \E u \in PublicURLs : InitRunning(u)

NextFinalize == Finalize \/ Streams \/ CancelJob

SpecFinalize == InitFinalize /\ [][NextFinalize]_vars

\* clients submit the job of the streams and no other
Accept ==
    \E h \in Handlers :
        \/ nextId = Streamed /\ CreateJobCreate(h, PlainRequest, Nil)
        \/ CreateJobEnqueue(h)

\* processJob from the receive of the id to the start of worker.Run
Begin ==
    \/ Dequeue(Worker) \/ WGet(Worker) \/ WMarkProcessing(Worker)
    \/ WRegister(Worker) \/ WRunStart(Worker)

\* a stream handler that can go on does; whether and when a client opens a
\* stream or goes away is up to the client
StreamStep(s) ==
    \/ StreamSSEResult(s) \/ StreamSSESubscribe(s)
    \/ Recv(s) \/ RecvClosed(s) \/ Unsubscribe(s)

\* scheduling: main, the worker goroutine and the goroutines of the requests
\* that have arrived keep taking their steps
FairEnd ==
    /\ WF_vars(Recovery) /\ WF_vars(Start)
    /\ WF_vars(Begin) /\ WF_vars(Finalize)
    /\ WF_vars(Accept) /\ WF_vars(CancelJob)
    /\ \A s \in Sinks : WF_vars(StreamStep(s))

NextEnd ==
    Recovery \/ Start \/ Accept \/ CancelJob \/ Begin \/ Finalize \/ Streams

SpecEnd == Init /\ [][NextEnd]_vars /\ FairEnd

\* the end of the job's run with stream requests and nothing else: no client
\* cancels the job
FairRace == WF_vars(Finalize) /\ \A s \in Sinks : WF_vars(StreamStep(s))

NextRace == Finalize \/ Streams

SpecRace == InitFinalize /\ [][NextRace]_vars /\ FairRace

(* ---------------------- workers on a failing store --------------------- *)
\* processJob: store.Get (pc = "get") or store.MarkProcessing (pc = "mark")
\* returns an error such as ErrStore; the worker logs it and returns
WStoreError(w, pc) ==
    /\ phase = "serving" /\ wpc[w] = pc
    /\ marks' = [marks EXCEPT ![wjob[w]] = IF pc = "mark" THEN @ + 1 ELSE @]
    /\ wpc' = [wpc EXCEPT ![w] = "idle"]
    /\ wjob' = [wjob EXCEPT ![w] = NoId]
    /\ UNCHANGED <<qcap, pool, ttl, pure, call, fan, web, sse, everProcessing,
                   store, now, nextId, phase, boots, pending, cancels, wctx,
                   wrunErr, handlers, notified, runs, enqs, full, cancelOK,
                   ticket>>

Fail == \E w \in Workers : WStoreError(w, "get") \/ WStoreError(w, "mark")

\* scheduling: main, every worker goroutine and every request goroutine keep
\* taking their steps, whatever the store answers
FairErr ==
    /\ WF_vars(Recovery) /\ WF_vars(Start)
    /\ \A w \in Workers :
        WF_vars(WorkerStep(w) \/ WStoreError(w, "get")
                    \/ WStoreError(w, "mark"))
    /\ \A h \in Handlers : WF_vars(CreateJobEnqueue(h) \/ HandlerReturn(h))

NextErr == Recovery \/ Start \/ Submit \/ Work \/ Fail

SpecErr == Init /\ [][NextErr]_vars /\ FairErr

(* ------------------- graceful shutdown and restart --------------------- *)
\* the process is started again after main has returned: memory is lost, the
\* database stays, main makes a new context
Restart ==
    /\ phase = "exit" /\ boots < MaxStops
    /\ boots' = boots + 1
    /\ phase' = "boot"
    /\ mainCtx' = "live"
    /\ pending' = <<>>
    /\ cancels' = [id \in Jobs |-> 0]
    /\ wpc' = [w \in Workers |-> "idle"]
    /\ wjob' = [w \in Workers |-> NoId]
    /\ wctx' = [w \in Workers |-> "live"]
    /\ wrunErr' = [w \in Workers |-> Nil]
    /\ hpc' = [h \in Handlers |-> "idle"]
    /\ hjob' = [h \in Handlers |-> NoId]
    /\ herr' = [h \in Handlers |-> Nil]
    /\ hcode' = [h \in Handlers |-> 0]
    /\ hop' = [h \in Handlers |-> ""]
    /\ hreq' = [h \in Handlers |-> NoRequest]
    /\ notified' = [id \in Jobs |-> <<>>]
    /\ runs' = [id \in Jobs |-> 0]
    /\ marks' = [id \in Jobs |-> 0]
    /\ enqs' = [id \in Jobs |-> 0]
    /\ ticket' = [id \in Jobs |-> 0]
    /\ UNCHANGED <<qcap, pool, ttl, pure, call, fan, sse, everProcessing,
                   store, now, nextId, full, cancelOK, callback, hookpc, hctx,
                   attempt, posted, failed, sleeps, last>>

\* SIGTERM reaches a process that will be started again
Stop == boots < MaxStops /\ Shutdown

\* a serving process whose first worker is running the only job, submitted
\* without a callback URL
InitShutdown == InitRunningAt(0, NoURL)

\* scheduling: main returns after the signal, the process is started again,
\* main and the workers keep taking their steps, a request that has been
\* received is served to its end
FairShutdown ==
    /\ WF_vars(Exit) /\ WF_vars(Restart)
    /\ WF_vars(Recovery) /\ WF_vars(Start)
    /\ \A w \in Workers : WF_vars(WorkerStep(w))
    /\ \A h \in Handlers :
        WF_vars(CancelJobUpdate(h) \/ CancelJobSignal(h) \/ HandlerReturn(h))

NextShutdown ==
    Stop \/ Exit \/ Restart \/ Recovery \/ Start \/ Work \/ CancelJob

SpecShutdown == InitShutdown /\ [][NextShutdown]_vars /\ FairShutdown

(* ============================== claims ================================= *)

DagEdge(a, b) ==
    \/ a = StatusQueued /\ b \in {StatusProcessing, StatusCancelled}
    \/ a = StatusProcessing /\ b \in {StatusCompleted, StatusFailed, StatusCancelled}

\* C1: whatever the interleaving of intake operations, workers, Recovery and
\* cleanup, the stored status of a job only moves along queued -> processing ->
\* {completed, failed, cancelled} or queued -> cancelled; a terminal status is
\* never overwritten with a different status.
C1_StatusDAG ==
    [][\A id \in Jobs :
          (Exists(store, id) /\ Exists(store', id)
           /\ store[id].status # store'[id].status)
          => DagEdge(store[id].status, store'[id].status)]_vars

\* C2: once CancelJob has answered 200 for a job, the job's stored status is
\* cancelled and it is never afterwards processing, completed or failed.
C2_CancelledStays ==
    \A id \in cancelOK : store[id].status \in {StatusCancelled, "absent"}

\* C3: a worker that dequeued an id and reads status cancelled for it does no
\* MarkProcessing, spawns no process, emits no event and writes nothing to the
\* store; it goes back to the queue and the record stays cancelled.
C3_SkipCancelled ==
    [][\A w \in Workers :
          (wpc[w] = "get" /\ store[wjob[w]].status = StatusCancelled
           /\ wpc'[w] # "get")
          => /\ wpc'[w] = "idle"
             /\ store' = store
             /\ marks'[wjob[w]] = marks[wjob[w]] \/ marks'[wjob[w]] = 0
             /\ runs'[wjob[w]] = runs[wjob[w]] \/ runs'[wjob[w]] = 0
             /\ notified'[wjob[w]] = notified[wjob[w]] \/ notified'[wjob[w]] = <<>>
             /\ store'[wjob[w]].status = StatusCancelled]_vars

\* a job cancelled while queued has been dequeued and skipped
C3_Witness ==
    \E id \in Jobs :
        /\ store[id].status = StatusCancelled
        /\ enqs[id] = 1 /\ marks[id] = 0 /\ runs[id] = 0 /\ notified[id] = <<>>
        /\ id \notin Range(pending)
        /\ \A w \in Workers : wjob[w] # id

\* C4: at every moment at most one worker holds a given job id, an id is in the
\* pending queue at most once, and MarkProcessing and the external run happen at
\* most once per successful enqueue.
C4_OneWorkerPerJob ==
    \A id \in Jobs :
        /\ Cardinality({w \in Workers : wjob[w] = id}) <= 1
        /\ Cardinality({i \in DOMAIN pending : pending[i] = id}) <= 1
        /\ marks[id] <= enqs[id]
        /\ runs[id] <= enqs[id]

\* two workers run two different jobs at the same time
C4_Witness ==
    \E w1, w2 \in Workers :
        /\ w1 # w2
        /\ wpc[w1] = "running" /\ wpc[w2] = "running"
        /\ runs[wjob[w1]] = 1 /\ runs[wjob[w2]] = 1

\* C8: a job that is queued in the store and missing from the pending queue
\* because Enqueue returned ErrQueueFull is put into the pending queue by
\* Recovery at the next startup (as far as the queue has room).
C8_RecoveryRequeuesQueued ==
    [][(phase = "boot" /\ phase' = "recovered")
       => \A id \in full :
             store[id].status = StatusQueued
             => (id \in Range(pending') \/ Len(pending') = QueueSize)]_vars

\* C9: when Enqueue returns ErrQueueFull to CreateJob, the client receives 503
\* and the record stays in the store with status queued.
C9_QueueFullIs503 ==
    \A h \in Handlers :
        (hpc[h] = "done" /\ hop[h] = "CreateJob" /\ ErrorsIs(herr[h], ErrQueueFull))
        => (hcode[h] = 503 /\ store[hjob[h]].status = StatusQueued)

\* C10: the pending queue never holds more than QueueSize ids; an Enqueue on a
\* full queue is not blocked, returns an error matching ErrQueueFull and leaves
\* the queue unchanged.
C10_EnqueueBounded ==
    /\ [](Len(pending) <= QueueSize)
    /\ [](\A h \in Handlers :
            (phase = "serving" /\ hpc[h] = "enqueue") => ENABLED CreateJobEnqueue(h))
    /\ [][\A h \in Handlers :
            (hpc[h] = "enqueue" /\ hpc'[h] = "done" /\ Len(pending) = QueueSize)
            => (pending' = pending /\ ErrorsIs(herr'[h], ErrQueueFull))]_vars

\* CreateJob has just been refused by a full queue
C10_Witness ==
    \E h \in Handlers :
        /\ hpc[h] = "done" /\ hop[h] = "CreateJob"
        /\ ErrorsIs(herr[h], ErrQueueFull)
        /\ Len(pending) = QueueSize

\* C5: for every interleaving of notify, notifyAndClose, Subscribe and
\* Unsubscribe on one job id, no event is sent to a sink after that sink has
\* been closed and no sink is closed twice: the runtime never panics with
\* "send on closed channel" or "close of closed channel".
C5_NoSendAfterClose ==
    panic \notin {"send on closed channel", "close of closed channel"}

\* a notify has sent to a sink registered after an earlier sink of the job
\* was closed with events in it
C5_Witness ==
    \E p \in Procs : \E s \in Sinks :
        /\ fpc[p] = "notify" /\ fchans[p] # <<>> /\ fi[p] > 1
        /\ sclosed[s] /\ sbuf[s] # <<>>

\* C6: a subscriber that was registered when the job was finalized and that
\* reads its sink up to end-of-stream has received exactly one result event,
\* and it is the last event it received, however many events its sink held.
C6_ResultIsLast ==
    \A s \in atClose :
        eof[s] => /\ rcvd[s] # <<>>
                  /\ rcvd[s][Len(rcvd[s])] = EvResult
                  /\ Cardinality({i \in DOMAIN rcvd[s] :
                                     rcvd[s][i].Event = "result"}) = 1

\* position of an event in the production order of the worker
Rank(ev) ==
    IF ev.Event = "status" THEN 0
    ELSE IF ev.Event = "chunk" THEN ev.Data
    ELSE MaxChunks + 1

\* what a sink has carried so far: the events received, then those buffered
Delivered(s) == rcvd[s] \o sbuf[s]

C11_FifoOrder ==
    /\ [](\A a, b \in Jobs :
            (ticket[a] # 0 /\ ticket[b] # 0 /\ ticket[a] < ticket[b]
             /\ b \notin Range(pending)) => a \notin Range(pending))
    /\ [][\A w \in Workers :
            (wjob[w] = NoId /\ wjob'[w] # NoId)
            => \A a \in Range(pending) : ticket[wjob'[w]] <= ticket[a]]_vars

\* a worker has received the first of two ids that were pending together
C11_Witness ==
    \E w \in Workers : \E b \in Jobs :
        /\ wjob[w] # NoId /\ wpc[w] = "get"
        /\ pending = <<b>>
        /\ ticket[wjob[w]] # 0 /\ ticket[wjob[w]] < ticket[b]
        /\ qcap > 1

\* the ids ResetProcessing returned to Recovery: those Recovery enqueued and
\* those whose Enqueue it logged as failed
Returned == Range(pending') \cup (full' \ full)

\* C12: whatever the store holds when ResetProcessing is called, afterwards no
\* job is processing, the ids returned are exactly the jobs that were
\* processing, each of them is queued with started_at null, and every other
\* job (and every other column) is unchanged.
C12_ResetProcessing ==
    [][(phase = "boot" /\ phase' = "recovered")
       => /\ \A id \in Jobs : store'[id].status # StatusProcessing
          /\ Returned = {id \in Jobs : store[id].status = StatusProcessing}
          /\ \A id \in Jobs :
                IF store[id].status = StatusProcessing
                THEN store'[id] = [store[id] EXCEPT !.status = StatusQueued,
                                                    !.started_at = Null]
                ELSE store'[id] = store[id]]_vars

\* after a restart, a job found processing is queued again with started_at
\* null next to a job that was terminal and kept its row
C12_Witness ==
    /\ phase = "recovered" /\ boots > 0
    /\ \E a, b \in Jobs :
          /\ ticket[a] # 0 /\ store[a].status = StatusQueued
          /\ store[a].started_at = Null
          /\ IsTerminal(store[b].status) /\ store[b].started_at # Null

\* the process has just died with job id in status processing, and the queue
\* has room for every job Recovery will re-enqueue
DiedProcessing(id) ==
    /\ phase = "boot"
    /\ store[id].status = StatusProcessing
    /\ Cardinality(ProcessingIds(store)) <= qcap

\* job id has been run again by the restarted process and is terminal, or a
\* client cancelled or deleted it in the meantime
RanAgain(id) ==
    \/ IsTerminal(store[id].status) /\ runs[id] > 0
    \/ store[id].status = StatusCancelled
    \/ store[id].status = "absent"

\* C13: at-least-once across a crash: a job that was processing when the
\* process died is, after the restart, queued again, received by a worker,
\* run again and brought to a terminal status (unless a client cancels or
\* deletes it first).
C13_AtLeastOnce ==
    \A id \in Jobs : DiedProcessing(id) ~> RanAgain(id)

\* a job that was processing at the crash has been run by the new process
\* and is completed
C13_Witness ==
    \E id \in Jobs :
        /\ boots > 0 /\ ticket[id] # 0 /\ runs[id] > 0
        /\ store[id].status = StatusCompleted

\* C14: in every reachable state of the store, for every job, completed_at is
\* non-null if and only if the status is completed, failed or cancelled.
C14_CompletedAtIffTerminal ==
    \A id \in Jobs :
        Exists(store, id)
        => (store[id].completed_at # Null <=> IsTerminal(store[id].status))

C16_TerminalStatus ==
    /\ [][\A w \in Workers :
            (wpc[w] = "finalize" /\ wpc'[w] = "close"
             /\ Exists(store, wjob[w]))
            => LET e == wrunErr[w]
                   row == store'[wjob[w]]
               IN /\ e = Nil
                       => row.status = StatusCompleted /\ row.error = ""
                  /\ ErrorsIs(e, ErrCanceled)
                       => /\ row.status = StatusCancelled
                          /\ row.error = "job cancelled by user"
                  /\ ErrorsIs(e, ErrDeadlineExceeded)
                       => /\ row.status = StatusFailed
                          /\ row.error = "job timed out after 1m"
                  /\ (e # Nil /\ ~ErrorsIs(e, ErrCanceled)
                      /\ ~ErrorsIs(e, ErrDeadlineExceeded))
                       => row.status = StatusFailed /\ row.error = e[1]]_vars
    /\ [][\A w \in Workers :
            (wpc[w] \in {"start", "running"} /\ wpc'[w] = "finalize")
            => /\ ErrorsIs(wrunErr'[w], ErrCanceled) => wctx[w] = "canceled"
               /\ ErrorsIs(wrunErr'[w], ErrDeadlineExceeded)
                    => JobTimeoutMinutes > 0 /\ wctx[w] = "live"]_vars

\* one job has been stored as timed out and another as cancelled by its worker
C16_Witness ==
    \E a, b \in Jobs :
        /\ store[a].status = StatusFailed
        /\ store[a].error = "job timed out after 1m"
        /\ store[b].status = StatusCancelled /\ runs[b] > 0
        /\ store[b].started_at # Null

\* C17: a delivery started by finalizeJob goes on after the user has
\* cancelled the job, and issues no further POST once the context main
\* cancels at shutdown has been cancelled.
C17_StopsAtShutdown ==
    [][\A id \in Jobs :
        mainCtx = "canceled" => posted'[id] = posted[id]]_vars

\* the claim's reading of a callback URL that fails validation
Blocked(u) ==
    /\ u.raw # ""
    /\ \/ u.scheme \notin {"http", "https"}
       \/ \E i \in 1..Len(u.ips) :
            \/ IsLoopback(u.ips[i]) \/ IsPrivate(u.ips[i])
            \/ IsLinkLocalUnicast(u.ips[i]) \/ IsLinkLocalMulticast(u.ips[i])
            \/ IsUnspecified(u.ips[i])

C19_AtMostEightAttempts ==
    /\ [](\A id \in Jobs : posted[id] <= 8 /\ sleeps[id] <= 7)
    /\ [][\A id \in Jobs :
            /\ last[id] \in 200..299 => posted'[id] = posted[id]
            /\ posted'[id] # posted[id] =>
                  /\ posted'[id] = posted[id] + 1
                  /\ failed'[id] = failed[id] +
                        (IF last'[id] \in 200..299 THEN 0 ELSE 1)
            /\ failed[id] = 8 =>
                  /\ posted'[id] = posted[id] /\ sleeps'[id] = sleeps[id]
                  /\ hookpc'[id] \in {"loop", "done"}]_vars

\* a delivery has failed 8 times and ended, having slept 7 times
C19_Witness ==
    \E id \in Jobs :
        failed[id] = 8 /\ posted[id] = 8 /\ sleeps[id] = 7
        /\ hookpc[id] = "done"

\* C20: a stream opened on a job read in a terminal status (completed,
\* failed or cancelled) writes exactly one result event and returns without
\* registering a sink.
C20_TerminalOneResult ==
    \A s \in Sinks :
        (spc[s] \in {"stream", "done"} /\ IsTerminal(sj[s].status))
        => swrote[s] = <<"result">> /\ sstate[s] = "new"

C22_InvalidRequestNoEffect ==
    /\ [][\A h \in Handlers :
            (hpc[h] = "idle" /\ hop'[h] = "CreateJob")
            => LET r == hreq'[h]
                   bad == \/ ~r.decoded
                          \/ r.Prompt = ""
                          \/ r.Model \notin {"", "haiku", "sonnet", "opus"}
                          \/ r.ResponseFormat \notin {"", "text", "json"}
               IN /\ bad => /\ hcode'[h] = 400 /\ hpc'[h] = "done"
                            /\ store' = store /\ pending' = pending
                            /\ nextId' = nextId
                  /\ (~bad /\ herr'[h] = Nil)
                          => /\ hpc'[h] = "enqueue" /\ hjob'[h] = nextId
                             /\ store'[nextId].status = StatusQueued
                             /\ store'[nextId].prompt = r.Prompt
                             /\ store'[nextId].model =
                                  IF r.Model = "" THEN "haiku" ELSE r.Model
                             /\ store'[nextId].response_format =
                                  r.ResponseFormat]_vars
    /\ [](\A h \in Handlers : hcode[h] = 400 => hpc[h] = "done")

\* a request naming an unknown model has been answered 400 after a request
\* without a model was stored with the default model
C22_Witness ==
    \E h \in Handlers :
        /\ hcode[h] = 400 /\ hreq[h].Model = "gpt"
        /\ \E id \in Jobs : store[id].model = "haiku"

\* C23: a DeleteTerminalBefore(t) call removes exactly the rows that are
\* completed, failed or cancelled with completed_at < t, returns their number
\* and leaves every other row as it was; with a TTL of zero the cleanup never
\* calls it.
Expired(row, t) ==
    /\ row.status \in {StatusCompleted, StatusFailed, StatusCancelled}
    /\ row.completed_at # Null
    /\ row.completed_at < t

C23_DeleteTerminalBefore ==
    /\ [][(call' # call /\ lastOp'.op = "DeleteTerminalBefore")
            => /\ \A id \in Jobs :
                    IF Expired(store[id], lastOp'.arg.before)
                    THEN store'[id] = NoJob
                    ELSE store'[id] = store[id]
               /\ ret'.n = Cardinality({id \in Jobs :
                                Expired(store[id], lastOp'.arg.before)})
               /\ ret'.err = Nil]_vars
    /\ [](ttl = 0 => lastOp.by # "cleanup")

\* a call has removed one terminal row, kept a terminal row completed at the
\* cutoff or later and returned 1
C23_Witness ==
    /\ lastOp.op = "DeleteTerminalBefore"
    /\ ret.n = 1
    /\ \E id \in Jobs :
        /\ IsTerminal(store[id].status)
        /\ store[id].completed_at >= lastOp.arg.before

\* C24: UpdateStatus is idempotent for terminal updates: the call that repeats
\* the latest call, a terminal UpdateStatus with the same id, status, result
\* and error, leaves every field of every record as the first call left it,
\* completed_at included.
C24_UpdateStatusIdempotent ==
    [][(/\ lastOp.op = "UpdateStatus"
        /\ IsTerminal(lastOp.arg.status)
        /\ lastOp' = lastOp)
          => store' = store]_vars

\* C25: a Get that follows Create(j) of a fresh id returns a job with j's id,
\* prompt, model, metadata bytes and response_format and with status queued,
\* whatever status j carried, and no error; a Get of an id that has no row,
\* never created or deleted, returns the absent value and no error.
C25_CreateThenGet ==
    [][(call' # call /\ lastOp'.op = "Get")
        => /\ (lastOp.op = "Create" /\ lastOp.id = lastOp'.id)
                => /\ ret'.job.ID = lastOp.arg.ID
                   /\ ret'.job.Prompt = lastOp.arg.Prompt
                   /\ ret'.job.Model = lastOp.arg.Model
                   /\ ret'.job.Metadata = lastOp.arg.Metadata
                   /\ ret'.job.ResponseFormat = lastOp.arg.ResponseFormat
                   /\ ret'.job.Status = StatusQueued
                   /\ ret'.err = Nil
           /\ ~Exists(store, lastOp'.id)
                => ret' = [job |-> NoJob, err |-> Nil]]_vars

\* Get has returned, as queued and with its metadata, the job that was handed
\* to Create with the status completed
C25_Witness ==
    /\ lastOp.op = "Get"
    /\ ret.job # NoJob
    /\ ret.job \in {[j EXCEPT !.Status = StatusQueued] :
                        j \in {i \in JobInputs(lastOp.id) :
                                    i.Status = StatusCompleted}}
    /\ ret.job.Metadata # ""

\* C26: a worker that dequeued an id whose record is absent from the store
\* writes nothing to the store, spawns no process, does not fail or stop, and
\* goes back to the queue for the next id.
C26_AbsentRecordSkipped ==
    [][\A w \in Workers :
          (phase = "serving" /\ wpc[w] = "get" /\ ~Exists(store, wjob[w]))
          => /\ phase' = "serving"
             /\ wpc'[w] # "get"
                  => /\ wpc'[w] = "idle"
                     /\ store' = store
                     /\ marks' = marks /\ runs' = runs]_vars

\* C27: stripCodeFences is idempotent: for every text over the backquote, the
\* newline, the space and an ordinary character, applying it twice gives what
\* applying it once gives.
C27_StripIdempotent ==
    Len(out) >= 3 => out[3] = out[2]

\* C29: notify never blocks the calling worker: each iteration appends the
\* event to the sink it is at if that sink has room and leaves a full sink as
\* it is, no other sink changes in that step, the call visits every sink that
\* is registered for the job and no sink of another job, and it can always
\* take its next step.
NotifyStep(p) == fpc[p] = "notify" /\ fi'[p] = fi[p] + 1

C29_NotifyNeverBlocks ==
    /\ [][\A p \in Procs :
            /\ NotifyStep(p)
                 => LET t == fchans[p][fi[p]]
                    IN /\ sbuf'[t] = IF Len(sbuf[t]) < SinkCap
                                     THEN Append(sbuf[t], fev[p])
                                     ELSE sbuf[t]
                       /\ \A s \in Sinks \ {t} : sbuf'[s] = sbuf[s]
                       /\ panic' = ""
            /\ (fpc[p] = "idle" /\ fpc'[p] = "notify")
                 => \E id \in Jobs :
                        /\ fchans'[p] = Chans(subs, id)
                        /\ \A s \in Sinks :
                              s \in Range(fchans'[p]) <=>
                                  (sid[s] = id /\ s \in Range(Chans(subs, id)))
            /\ fpc[p] = "notify"
                 => /\ subs' = subs
                    /\ fpc'[p] = "idle" => fi[p] = Len(fchans[p]) + 1]_vars
    /\ [](\A p \in Procs :
            (fpc[p] = "notify" /\ panic = "")
                => ENABLED (NotifySend(p) \/ NotifyRUnlock(p)))

\* a notify has found the first sink of a job full and dropped the event for
\* it, and the second sink of the job has received that event
C29_Witness ==
    \E id \in Jobs : \E s, t \in Sinks :
        /\ id \in DOMAIN subs /\ subs[id] = <<s, t>>
        /\ Len(sbuf[s]) = SinkCap
        /\ sbuf[t] # <<>>
        /\ sbuf[t][Len(sbuf[t])] \notin Range(sbuf[s])
        /\ \A p \in Procs : fpc[p] = "idle"

\* C30: Unsubscribe(id, sink) removes exactly that sink from the entry of id
\* and leaves the other sinks of id in their order and the entries of the
\* other jobs as they are; once the last sink of id is removed the registry
\* has no entry for id; unsubscribing a sink that is not registered changes
\* nothing.
UnsubscribeStep(s) == sstate[s] = "return" /\ sstate'[s] = "left"

Without(chans, s) == SelectSeq(chans, LAMBDA c : c # s)

C30_UnsubscribeExact ==
    /\ [][\A s \in Sinks :
            UnsubscribeStep(s)
              => /\ Chans(subs', sid[s]) = Without(Chans(subs, sid[s]), s)
                 /\ \A id \in Jobs \ {sid[s]} :
                        /\ id \in DOMAIN subs' <=> id \in DOMAIN subs
                        /\ Chans(subs', id) = Chans(subs, id)
                 /\ Without(Chans(subs, sid[s]), s) = <<>>
                        => sid[s] \notin DOMAIN subs'
                 /\ s \notin Range(Chans(subs, sid[s])) => subs' = subs]_vars
    /\ [](\A id \in DOMAIN subs : subs[id] # <<>>)

\* a sink has been unsubscribed while a later sink of the same job and a sink
\* of no other job stay registered
C30_Witness ==
    \E s, t \in Sinks :
        /\ s # t /\ sstate[s] = "left" /\ ~sclosed[s]
        /\ sid[s] = sid[t]
        /\ sid[t] \in DOMAIN subs /\ subs[sid[t]] = <<t>>

\* C28: at startup Recovery has completed before any worker is started and
\* before any request is served: the process starts serving only from the
\* state Recovery left, Recovery runs only at boot, and until the process
\* serves no worker and no handler moves and nothing but Recovery writes the
\* store.
C28_RecoveryFirst ==
    /\ [][/\ (phase' = "serving" /\ phase # "serving") => phase = "recovered"
          /\ (phase' = "recovered" /\ phase # "recovered") => phase = "boot"
          /\ phase \in {"boot", "recovered"}
               => /\ <<wpc, wjob, wctx, hpc, hjob, hop>>'
                        = <<wpc, wjob, wctx, hpc, hjob, hop>>
                  /\ store' # store
                        => phase = "boot" /\ phase' = "recovered"]_vars
    /\ [](phase \in {"boot", "recovered"}
            => /\ \A w \in Workers : wpc[w] = "idle"
               /\ \A h \in Handlers : hpc[h] = "idle")
    /\ [](phase = "recovered" => ProcessingIds(store) = {})

\* after a restart on a database with a processing row, Recovery has run and a
\* worker holds the job again
C28_Witness ==
    /\ boots > 0 /\ phase = "serving"
    /\ \E w \in Workers :
        /\ wpc[w] = "mark"
        /\ store[wjob[w]].status = StatusQueued
        /\ ticket[wjob[w]] # 0

\* C31: the cancellation map holds a handle for a job id only while a worker
\* is inside processJob for that id after having marked it processing; once
\* that worker has returned the map has no entry for the id; and Cancel(id)
\* finds and invokes a handle exactly when an entry is present.
Registered(w) == wpc[w] \in {"start", "running", "finalize", "close"}

C31_CancelsOnlyWhileProcessing ==
    /\ [](\A id \in Jobs :
            /\ cancels[id] # 0
                 => /\ wjob[cancels[id]] = id
                    /\ Registered(cancels[id])
                    /\ marks[id] > 0
            /\ (\A w \in Workers : wjob[w] # id) => cancels[id] = 0)
    /\ [][\A h \in Handlers :
            (hpc[h] = "cancel_signal" /\ hpc'[h] = "done")
              => IF CancelFound(hjob[h])
                 THEN /\ wctx'[cancels[hjob[h]]] = "canceled"
                      /\ \A w \in Workers \ {cancels[hjob[h]]} :
                            wctx'[w] = wctx[w]
                 ELSE wctx' = wctx]_vars

\* Cancel has found the handle of a running job and cancelled its context
C31_Witness ==
    \E w \in Workers :
        /\ wpc[w] = "running" /\ wctx[w] = "canceled"
        /\ cancels[wjob[w]] = w
        /\ wjob[w] \in cancelOK

\* C32: every job id that CreateJob puts into the pending queue was first
\* created in the store: CreateJob reaches Enqueue only after store.Create
\* returned without error, and when Create fails nothing is enqueued and the
\* client gets an internal error.
C32_PersistThenEnqueue ==
    /\ [](\A h \in Handlers :
            (hop[h] = "CreateJob" /\ hpc[h] = "enqueue")
                => /\ herr[h] = Nil
                   /\ store[hjob[h]].status = StatusQueued)
    /\ [][\A id \in Jobs :
            (phase = "serving" /\ enqs'[id] > enqs[id])
                => /\ Exists(store, id)
                   /\ \E h \in Handlers :
                        hpc[h] = "enqueue" /\ hjob[h] = id]_vars
    /\ [][\A h \in Handlers :
            (hpc[h] = "idle" /\ hop'[h] = "CreateJob" /\ herr'[h] # Nil)
                => /\ hcode'[h] = 500 /\ hpc'[h] = "done"
                   /\ store' = store /\ pending' = pending
                   /\ enqs' = enqs]_vars
    /\ [](\A h \in Handlers :
            (hop[h] = "CreateJob" /\ hpc[h] = "done"
             /\ hjob[h] # NoId /\ ~Exists(store, hjob[h]))
                => enqs[hjob[h]] = 0 /\ hcode[h] = 500)

\* store.Create has failed for a valid request: the client got 500, there is
\* no record and nothing was enqueued
C32_Witness ==
    \E h \in Handlers :
        /\ hop[h] = "CreateJob" /\ hpc[h] = "done" /\ hcode[h] = 500
        /\ herr[h] = Wrap("create job", ErrStore)
        /\ ~Exists(store, hjob[h])
        /\ hjob[h] \notin Range(pending)

\* the events hold the result event
HasResult(events) == \E i \in DOMAIN events : events[i] = EvResult

Busy == {w \in Workers : wjob[w] # NoId}
Processes == {w \in Workers : wpc[w] = "running"}

C35_EventMatchesStore ==
    [][\A w \in Workers :
         (wpc[w] = "close" /\ wpc'[w] = "idle")
         => store'[wjob[w]].status = TerminalStatus(wrunErr[w])]_vars

\* C36: every stream opened on a job that reaches a terminal status ends by
\* itself: the sink of a subscribed handler is eventually closed (unless the
\* client has gone away before), also when the worker finalizes the job
\* between the handler's read of the status and its Subscribe.
C36_StreamEnds ==
    \A s \in Sinks :
        (sstate[s] = "open" /\ IsTerminal(store[Streamed].status))
            ~> (sclosed[s] \/ sstate[s] # "open")

\* C37: when a job is cancelled while queued and the worker later skips it,
\* every handler that subscribed while the job was queued eventually
\* receives the result event or the end of the stream (unless the client has
\* gone away before).
C37_CancelledQueuedStreamEnds ==
    \A s \in Sinks :
        (/\ sstate[s] = "open" /\ sj[s].status = StatusQueued
         /\ store[Streamed].status = StatusCancelled
         /\ marks[Streamed] = 0)
            ~> (HasResult(rcvd[s]) \/ eof[s] \/ sstate[s] # "open")

\* C38: once DeleteJob has removed the record of a job, no record with that
\* id exists again: a record comes into existence only by the store.Create
\* of CreateJob, under an id that no job has had before, and neither a
\* worker's MarkProcessing or UpdateStatus on the removed id, nor Recovery,
\* nor the cleanup brings it back.
C38_DeletedStaysDeleted ==
    /\ [][\A id \in Jobs :
            (~Exists(store, id) /\ Exists(store', id))
            => /\ id = nextId /\ nextId' = nextId + 1
               /\ \E h \in Handlers :
                    hop'[h] = "CreateJob" /\ hjob'[h] = id]_vars
    /\ [][nextId' >= nextId]_vars
    /\ [](\A id \in Jobs : Exists(store, id) => id < nextId)
    /\ [][\A w \in Workers :
            (wjob[w] # NoId /\ ~Exists(store, wjob[w]))
            => ~Exists(store', wjob[w])]_vars

\* DeleteJob has answered 204 for a job that a worker had read before; the
\* worker has since made its MarkProcessing call and run the job, and is
\* past its UpdateStatus call on the id, whose record is absent
C38_Witness ==
    \E w \in Workers : \E h \in Handlers :
        /\ wpc[w] = "close" /\ marks[wjob[w]] > 0
        /\ ~Exists(store, wjob[w])
        /\ hop[h] = "DeleteJob" /\ hjob[h] = wjob[w] /\ hcode[h] = 204

\* C39: every job that was persisted and enqueued, and that no client cancels
\* or deletes, eventually has a terminal status, given fair workers and runs
\* that end, also when the worker's Get or MarkProcessing on the job returns
\* a store error.
C39_EnqueuedEventuallyTerminal ==
    \A id \in Jobs :
        (Exists(store, id) /\ enqs[id] > 0)
            ~> (IsTerminal(store[id].status) \/ ~Exists(store, id))

\* the shutdown signal has come while the run of the job is going on
InFlight(id) ==
    /\ phase = "serving" /\ mainCtx = "canceled"
    /\ \E w \in Workers : wjob[w] = id /\ wpc[w] = "running"

\* a process started after the shutdown has spawned a run for the job
Resumed(id) == phase = "serving" /\ mainCtx = "live" /\ runs[id] > 0

====
